---- MODULE Spec2Model ----
(***************************************************************************)
(* Flowr timer: the web timer (app.js), the countdown mockup               *)
(* (flowr-mockup/app.js), the Discord bot's timer commands                 *)
(* (discord-bot.js) and the pure scheduled-finish evaluator finishIfDue.   *)
(*                                                                         *)
(* The three programs are separate processes; `program` says which one a   *)
(* behaviour runs, the variables of the others stay at their initial       *)
(* values.  The bot's timer commands and its agent commands share no       *)
(* state and are two values of `program`.                                  *)
(*                                                                         *)
(* JavaScript values: null is NULL (the empty tuple) and a non-null value  *)
(* v of a nullable field is Some(v).  Text is a tuple of one-character     *)
(* strings, so that trim, toLowerCase and includes are computed.  An ISO   *)
(* date string is a tagged pair, distinct from the number it was made of.  *)
(*                                                                         *)
(* app.js's lastTranscript (line 70) is assigned by handleStart,           *)
(* handleReset and the result handler and read nowhere; it is not part of  *)
(* the state here.  Display text (textContent of the page's elements) is   *)
(* not modelled either; the controls' disabled flags are.                  *)
(***************************************************************************)
EXTENDS Integers, Sequences, FiniteSets, TLC

\* ------------------------------------------------------------------ bounds
\* Clock readings are 0..MaxTime milliseconds (in the mockup: minutes).
MaxTime == 1
\* The user starts at most this many sessions where speech recognition is
\* unsupported, and half as many where it is supported.
MaxSessions == 2
MaxVoiceSessions == MaxSessions \div 2

\* ------------------------------------------------------- program constants
HISTORY_LIMIT == 10

\* --------------------------------------------------------------- JS values
NULL == <<>>
Some(v) == <<v>>
Val(x) == x[1]

Max(a, b) == IF a >= b THEN a ELSE b
Min(a, b) == IF a <= b THEN a ELSE b

Times == 0..MaxTime

\* new Date(ms).toISOString() and new Date(iso) (getTime of the parsed date).
\* new Date(null) is the epoch.
ToISOString(ms) == <<"iso", ms>>
DateParse(iso) == IF iso = NULL THEN 0 ELSE iso[2]

\* JSON.stringify / JSON.parse of a value made of strings, numbers, booleans,
\* null, arrays and plain objects.
JSONStringify(v) == <<"json", v>>
JSONParse(s) == s[2]

\* ------------------------------------------------------------------- text
Upper == [c \in {"s", "t", "o", "p", "h", "e", "l"} |->
            CASE c = "s" -> "S" [] c = "t" -> "T" [] c = "o" -> "O"
              [] c = "p" -> "P" [] c = "h" -> "H" [] c = "e" -> "E"
              [] c = "l" -> "L"]

LowerChar(c) ==
    IF \E l \in DOMAIN Upper : Upper[l] = c
    THEN CHOOSE l \in DOMAIN Upper : Upper[l] = c
    ELSE c

\* String.prototype.toLowerCase
ToLowerCase(s) == [i \in 1..Len(s) |-> LowerChar(s[i])]

\* String.prototype.trim
RECURSIVE TrimStart(_)
TrimStart(s) == IF s # <<>> /\ Head(s) = " " THEN TrimStart(Tail(s)) ELSE s
RECURSIVE TrimEnd(_)
TrimEnd(s) ==
    IF s # <<>> /\ s[Len(s)] = " " THEN TrimEnd(SubSeq(s, 1, Len(s) - 1)) ELSE s
Trim(s) == TrimEnd(TrimStart(s))

\* String.prototype.includes
Includes(hay, needle) ==
    \E i \in 0..(Len(hay) - Len(needle)) : SubSeq(hay, i + 1, i + Len(needle)) = needle

STOP_WORD == <<"s", "t", "o", "p">>
HELLO_WORD == <<"h", "e", "l", "l", "o">>

\* What the user may type into the keyword field, and what the recognizer may
\* deliver (before trimming).
KeywordInputs == { <<>>, <<" ">>, <<" ", "T", "o">> }
Transcripts == { <<" ">>, <<"S", "T", "O", "P", " ">>, <<"h", "o", "t">> }

\* ------------------------------------------------------------------ state
VARIABLES
    program,              \* which of the programs this behaviour runs
    lastOp,               \* history variable: <<the last handler, the branch it
                          \* took, the transcript it was given>>
    effectLog,            \* history variable: the calls the last run of
                          \* handleStart, handleStop or handleReset made, in
                          \* the order it made them, each with the value of
                          \* `status` at the call
    \* app.js
    status, startedAtMs, endedAtMs, stopReason, rafId,
    speechSupported, recognition, recognitionStarting, recState,
    voiceEnabledChecked, voiceModeChecked, keywordInputValue,
    historyStore, sessionCount,
    \* flowr-mockup/app.js
    mockStatus, mockStartedAtMs, endsAtMs, durationMs, mockRafId, durationMinValue,
    mockNow,              \* what nowMs() returns where the countdown is
                          \* followed along an advancing clock
    \* discord-bot.js
    timerStateFile, updateInterval, startReplies, stopReplies,
    panelUpdates,         \* control-panel updates waiting for Discord: the
                          \* status each one's caller read when it began
    connectedAgents,      \* the Map's entries in insertion order
    writable,             \* whether writeFileSync succeeds
    \* finishIfDue: the state object each polling observer holds, and the
    \* instant of its last evaluation (-1: none yet)
    fdInput, fdState, fdNow,
    \* two processes running discord-bot.js on one timer-state.json: where each
    \* is in its command handler and what the handler holds, and the number of
    \* commands given so far
    raceActors, raceCommands

webSession == <<status, startedAtMs, endedAtMs, stopReason>>
webVoice == <<recognition, recognitionStarting, recState>>
webConfig == <<speechSupported, voiceEnabledChecked, voiceModeChecked, keywordInputValue>>
webVars == <<webSession, rafId, webVoice, webConfig, historyStore, sessionCount>>

mockVars == <<mockStatus, mockStartedAtMs, endsAtMs, durationMs, mockRafId,
              durationMinValue>>
botOther == <<panelUpdates, connectedAgents, writable>>
botVars == <<timerStateFile, updateInterval, startReplies, stopReplies, botOther>>
fdVars == <<fdInput, fdState, fdNow>>
raceVars == <<raceActors, raceCommands>>

vars == <<program, lastOp, effectLog, mockNow, webVars, mockVars, botVars,
          fdVars, raceVars>>

notWeb == <<mockNow, mockVars, botVars, fdVars, raceVars>>
notMock == <<effectLog, mockNow, webVars, botVars, fdVars, raceVars>>
notBot == <<effectLog, mockNow, webVars, mockVars, fdVars, raceVars>>
notFd == <<effectLog, mockNow, webVars, mockVars, botVars, raceVars>>

\* The web page is open in a browser (app.js); the bot process runs
\* (discord-bot.js).  README.md 43 and DISCORD_SETUP.md ("Notes") describe the
\* deployment in which both run at once.
runsWeb == program \in {"web", "deployment"}
runsBot == program \in {"bot", "deployment"}
\* The bot's agent commands (discord-bot.js 420-482, 896-898) use
\* connectedAgents only, which no timer command, button or panel update reads
\* or writes: their behaviours are explored on their own.
runsAgents == program = "agents"

\* ------------------------------------------------------------ app.js: pure
\* getVoiceMode (app.js 94-99)
getVoiceMode == IF voiceModeChecked = "keyword" THEN "keyword" ELSE "any"

\* getKeyword (app.js 101-103)
getKeyword == Trim(keywordInputValue)

\* updateControls (app.js 115-123): the keyword field's disabled flag
keywordInputDisabled ==
    getVoiceMode # "keyword" \/ ~voiceEnabledChecked \/ ~speechSupported

\* stopAnimation (app.js 140-143)
stopAnimation(raf) == 0

\* requestAnimationFrame: a non-zero handle
requestAnimationFrame == 1

\* loadHistory (app.js 151-161)
loadHistory(store) ==
    IF store = NULL THEN <<>> ELSE JSONParse(store)

\* saveHistory (app.js 164-170)
saveHistory(sessions) ==
    JSONStringify(SubSeq(sessions, 1, Min(Len(sessions), HISTORY_LIMIT)))

\* A session an earlier page load left in localStorage (app.js 8, 151-161):
\* the k-th most recent one.
storedSession(k) ==
    [id |-> -k,
     startedAt |-> ToISOString(0),
     endedAt |-> ToISOString(0),
     durationMs |-> 0,
     stopReason |-> "manual",
     voiceEnabled |-> FALSE,
     voiceMode |-> NULL,
     keyword |-> NULL,
     transcriptSnippet |-> NULL]

\* What localStorage holds when the page loads: nothing, or the full history
\* saveHistory wrote before.
StoredHistories ==
    {NULL, JSONStringify([k \in 1..HISTORY_LIMIT |-> storedSession(k)])}

\* pushSessionToHistory placing the session after the existing ones.
pushSessionAtEnd(store, session) ==
    LET existing == loadHistory(store)
        next == SubSeq(existing \o <<session>>, 1,
                       Min(Len(existing) + 1, HISTORY_LIMIT))
    IN  saveHistory(next)

\* pushSessionToHistory putting the session in the place of the newest one.
pushSessionReplacingNewest(store, session) ==
    LET existing == loadHistory(store)
        next == IF existing = <<>> THEN <<session>>
                ELSE <<session>> \o Tail(existing)
    IN  saveHistory(next)

\* pushSessionToHistory (app.js 242-247)
pushSessionToHistory(store, session) ==
    LET existing == loadHistory(store)
        next == SubSeq(<<session>> \o existing, 1,
                       Min(Len(existing) + 1, HISTORY_LIMIT))
    IN  saveHistory(next)

\* The recognition object and the browser's recognizer behind it.
voiceNow ==
    [recognition |-> recognition, recognitionStarting |-> recognitionStarting,
     recState |-> recState]

\* SpeechRecognition.stop(): a started recognizer stops and will deliver its
\* end event; otherwise nothing happens, or stop() raises, which
\* stopRecognition's catch (app.js 318-320) ignores: the recognizer is as it
\* was in both cases.
recognizerStop(rs) == IF rs \in {"starting", "listening"} THEN "stopping" ELSE rs

\* stopRecognition without the finally block that puts the end handler back.
stopRecognitionLosingHandler(v) ==
    IF v.recognition = NULL
    THEN [v EXCEPT !.recognitionStarting = FALSE]
    ELSE LET cleared == [v EXCEPT !.recognitionStarting = FALSE,
                                  !.recognition = Some("none")]
         IN  [cleared EXCEPT !.recState = recognizerStop(@)]

\* stopRecognition (app.js 312-330).  recognition holds the object's onend
\* handler: "restart" is the handler of lines 263-269 and 323-328, "none" is
\* null.  The end event itself is delivered later (action OnEnd).
stopRecognition(v) ==
    IF v.recognition = NULL
    THEN [v EXCEPT !.recognitionStarting = FALSE]
    ELSE LET cleared == [v EXCEPT !.recognitionStarting = FALSE,
                                  !.recognition = Some("none")]
             stopped == [cleared EXCEPT !.recState = recognizerStop(@)]
         IN  [stopped EXCEPT !.recognition = Some("restart")]

\* ensureRecognition (app.js 249-293): the object, created on first use
ensureRecognition(r, supported) ==
    IF ~supported THEN NULL
    ELSE IF r # NULL THEN r
    ELSE Some("restart")

\* startRecognition without its test of the status.
startRecognitionAnyStatus(v, st, enabled, supported) ==
    IF ~supported \/ ~enabled THEN v
    ELSE IF v.recognitionStarting THEN v
    ELSE LET r == ensureRecognition(v.recognition, supported) IN
         IF r = NULL THEN v
         ELSE IF v.recState = "inactive"
              THEN [recognition |-> r, recognitionStarting |-> TRUE,
                    recState |-> "starting"]
              ELSE [recognition |-> r, recognitionStarting |-> FALSE,
                    recState |-> v.recState]

\* startRecognition (app.js 295-310) with ensureRecognition (249-293).
\* SpeechRecognition.start() throws when the recognizer is already started.
startRecognition(v, st, enabled, supported) ==
    IF ~supported \/ ~enabled THEN v
    ELSE IF st # "running" THEN v
    ELSE IF v.recognitionStarting THEN v
    ELSE LET r == ensureRecognition(v.recognition, supported) IN
         IF r = NULL THEN v
         ELSE IF v.recState = "inactive"
              THEN [recognition |-> r, recognitionStarting |-> TRUE,
                    recState |-> "starting"]
              ELSE [recognition |-> r, recognitionStarting |-> FALSE,
                    recState |-> v.recState]

\* durationOf without the clamp at zero.
durationUnclamped(startMs, endMs) == endMs - startMs

\* The duration handleStop records (app.js 385)
durationOf(startMs, endMs) == Max(0, endMs - startMs)

\* The session object with the transcript kept in transcriptSnippet.
sessionRecordWithSnippet(id, startMs, endMs, reason, transcriptForStop) ==
    [id |-> id,
     startedAt |-> ToISOString(startMs),
     endedAt |-> ToISOString(endMs),
     durationMs |-> durationOf(startMs, endMs),
     stopReason |-> reason,
     voiceEnabled |-> voiceEnabledChecked,
     voiceMode |-> IF voiceEnabledChecked THEN Some(getVoiceMode) ELSE NULL,
     keyword |-> IF voiceEnabledChecked /\ getVoiceMode = "keyword"
                 THEN Some(getKeyword) ELSE NULL,
     transcriptSnippet |-> IF transcriptForStop = <<>> THEN NULL
                           ELSE Some(transcriptForStop)]

\* The session object without the latched keyword.
sessionRecordWithoutKeyword(id, startMs, endMs, reason, transcriptForStop) ==
    [id |-> id,
     startedAt |-> ToISOString(startMs),
     endedAt |-> ToISOString(endMs),
     durationMs |-> durationOf(startMs, endMs),
     stopReason |-> reason,
     voiceEnabled |-> voiceEnabledChecked,
     voiceMode |-> IF voiceEnabledChecked THEN Some(getVoiceMode) ELSE NULL,
     keyword |-> NULL,
     transcriptSnippet |-> NULL]

\* The session object handleStop builds (app.js 396-407)
sessionRecord(id, startMs, endMs, reason, transcriptForStop) ==
    [id |-> id,
     startedAt |-> ToISOString(startMs),
     endedAt |-> ToISOString(endMs),
     durationMs |-> durationOf(startMs, endMs),
     stopReason |-> reason,
     voiceEnabled |-> voiceEnabledChecked,
     voiceMode |-> IF voiceEnabledChecked THEN Some(getVoiceMode) ELSE NULL,
     keyword |-> IF voiceEnabledChecked /\ getVoiceMode = "keyword"
                 THEN Some(getKeyword) ELSE NULL,
     transcriptSnippet |-> NULL]

\* maybeVoiceStop comparing without toLowerCase.
maybeVoiceStopCaseSensitive(st, enabled, mode, keyword, transcript) ==
    IF st # "running" THEN NULL
    ELSE IF ~enabled THEN NULL
    ELSE IF mode = "any" THEN Some("voice_any")
    ELSE IF keyword = <<>> THEN NULL
    ELSE IF Includes(transcript, keyword) THEN Some("voice_keyword")
    ELSE NULL

\* maybeVoiceStop without the return on an empty keyword.
maybeVoiceStopEmptyKeyword(st, enabled, mode, keyword, transcript) ==
    IF st # "running" THEN NULL
    ELSE IF ~enabled THEN NULL
    ELSE IF mode = "any" THEN Some("voice_any")
    ELSE IF Includes(ToLowerCase(transcript), ToLowerCase(keyword))
         THEN Some("voice_keyword")
         ELSE NULL

\* maybeVoiceStop without the return when voice is disabled.
maybeVoiceStopWhenDisabled(st, enabled, mode, keyword, transcript) ==
    IF st # "running" THEN NULL
    ELSE IF mode = "any" THEN Some("voice_any")
    ELSE IF keyword = <<>> THEN NULL
    ELSE IF Includes(ToLowerCase(transcript), ToLowerCase(keyword))
         THEN Some("voice_keyword")
         ELSE NULL

\* maybeVoiceStop (app.js 332-349): the stop reason it passes to handleStop,
\* NULL when it returns without calling handleStop.
maybeVoiceStop(st, enabled, mode, keyword, transcript) ==
    IF st # "running" THEN NULL
    ELSE IF ~enabled THEN NULL
    ELSE IF mode = "any" THEN Some("voice_any")
    ELSE IF keyword = <<>> THEN NULL
    ELSE IF Includes(ToLowerCase(transcript), ToLowerCase(keyword))
         THEN Some("voice_keyword")
         ELSE NULL

\* The simulate button's transcript (app.js 460)
simulatedTranscript(mode, keyword) ==
    IF mode = "keyword" THEN (IF keyword # <<>> THEN keyword ELSE STOP_WORD)
    ELSE HELLO_WORD

\* The simulate button reporting voice_any in both modes.
simulateDecisionAlwaysAny(st, mode, keyword) ==
    IF st # "running" THEN NULL ELSE Some("voice_any")

\* The simulate button deciding through maybeVoiceStop.
simulateDecisionByPolicy(st, mode, keyword) ==
    maybeVoiceStop(st, voiceEnabledChecked, mode, keyword,
                   simulatedTranscript(mode, keyword))

\* The simulate button's decision (app.js 462-475): the stop reason it passes
\* to handleStop, NULL when it calls nothing.
simulateDecision(st, mode, keyword) ==
    LET simulated == simulatedTranscript(mode, keyword) IN
    IF st # "running" THEN NULL
    ELSE IF mode = "any" THEN Some("voice_any")
    ELSE LET kw == IF keyword # <<>> THEN keyword ELSE STOP_WORD IN
         IF Includes(ToLowerCase(simulated), ToLowerCase(kw))
         THEN Some("voice_keyword")
         ELSE NULL

\* --------------------------------------------------------- app.js: handlers
\* The calls of a handler that the order of the transition and its side
\* effects is about, in source order: handleStop (app.js 383, 387, 412),
\* handleStart (355, 362, 372), handleReset (417, 419).
handleStopOrderTransitionFirst ==
    <<"setStatus", "stopRecognition", "pushSessionToHistory">>
handleStopOrder == <<"stopRecognition", "setStatus", "pushSessionToHistory">>
handleStartOrder == <<"stopRecognition", "setStatus", "startRecognition">>
handleResetOrder == <<"stopRecognition", "setStatus">>

\* The value of `status` each call of a handler finds: the handler's setStatus
\* (for handleReset the assignment of line 419) changes it from `before` to
\* `after`.
effectsOf(order, before, after) ==
    [i \in 1..Len(order) |->
       [call |-> order[i],
        status |-> IF \E j \in 1..i : order[j] = "setStatus" THEN after
                   ELSE before]]

SetVoice(v) ==
    /\ recognition' = v.recognition
    /\ recognitionStarting' = v.recognitionStarting
    /\ recState' = v.recState

\* stopGuard without its test of the status.
stopGuardAnyStatus(st, startMs) == startMs # NULL

\* stopGuard rejecting the idle status only.
stopGuardUnlessIdle(st, startMs) == st # "idle" /\ startMs # NULL

\* handleStop's guard (app.js 377)
stopGuard(st, startMs) == st = "running" /\ startMs # NULL

\* handleStop (app.js 376-413), called with the clock reading t.  It leaves
\* the voice configuration alone.
handleStop(reason, transcriptForStop, t) ==
    IF ~stopGuard(status, startedAtMs)
    THEN /\ UNCHANGED <<webSession, rafId, webVoice, historyStore, sessionCount>>
         /\ effectLog' = <<>>
    ELSE /\ effectLog' = effectsOf(handleStopOrder, status, "stopped")
         /\ endedAtMs' = Some(t)
         /\ stopReason' = Some(reason)
         /\ rafId' = stopAnimation(rafId)
         /\ SetVoice(stopRecognition(voiceNow))
         /\ status' = "stopped"
         /\ startedAtMs' = startedAtMs
         /\ historyStore' = pushSessionToHistory(historyStore,
                sessionRecord(sessionCount + 1, Val(startedAtMs), t, reason,
                              transcriptForStop))
         /\ sessionCount' = sessionCount + 1

\* startGuard without its test: every start command is accepted.
startGuardOpen(st) == TRUE

\* handleStart's guard (app.js 352)
startGuard(st) == st # "running"

\* handleStart without the clearing of endedAtMs and stopReason.
handleStartKeepingEnd(t) ==
    IF ~startGuard(status)
    THEN /\ UNCHANGED <<webSession, rafId, webVoice>>
         /\ effectLog' = <<>>
    ELSE /\ effectLog' = effectsOf(handleStartOrder, status, "running")
         /\ startedAtMs' = Some(t)
         /\ UNCHANGED <<endedAtMs, stopReason>>
         /\ status' = "running"
         /\ rafId' = requestAnimationFrame
         /\ SetVoice(startRecognition(stopRecognition(voiceNow), "running",
                                      voiceEnabledChecked, speechSupported))

\* handleStart (app.js 351-373)
handleStart(t) ==
    IF ~startGuard(status)
    THEN /\ UNCHANGED <<webSession, rafId, webVoice>>
         /\ effectLog' = <<>>
    ELSE /\ effectLog' = effectsOf(handleStartOrder, status, "running")
         /\ startedAtMs' = Some(t)
         /\ endedAtMs' = NULL
         /\ stopReason' = NULL
         /\ status' = "running"
         /\ rafId' = requestAnimationFrame
         /\ SetVoice(startRecognition(stopRecognition(voiceNow), "running",
                                      voiceEnabledChecked, speechSupported))

\* handleReset without the clearing of endedAtMs and stopReason.
handleResetKeepingEnd ==
    /\ effectLog' = effectsOf(handleResetOrder, status, "idle")
    /\ rafId' = stopAnimation(rafId)
    /\ SetVoice(stopRecognition(voiceNow))
    /\ status' = "idle"
    /\ startedAtMs' = NULL
    /\ UNCHANGED <<endedAtMs, stopReason>>

\* handleReset (app.js 415-429)
handleReset ==
    /\ effectLog' = effectsOf(handleResetOrder, status, "idle")
    /\ rafId' = stopAnimation(rafId)
    /\ SetVoice(stopRecognition(voiceNow))
    /\ status' = "idle"
    /\ startedAtMs' = NULL
    /\ endedAtMs' = NULL
    /\ stopReason' = NULL

\* Start button (app.js 454)
StartClick ==
    /\ runsWeb
    /\ UNCHANGED notWeb
    /\ sessionCount < (IF speechSupported THEN MaxVoiceSessions ELSE MaxSessions)
    /\ \E t \in Times : handleStart(t)
    /\ lastOp' = <<"start", IF status = "running" THEN "ignored" ELSE "done", <<>>>>
    /\ UNCHANGED <<program, webConfig, historyStore, sessionCount>>

\* Stop button (app.js 455)
StopClick ==
    /\ runsWeb
    /\ UNCHANGED notWeb
    /\ \E t \in Times : handleStop("manual", <<>>, t)
    /\ lastOp' = <<"stop", IF status = "running" THEN "done" ELSE "ignored", <<>>>>
    /\ UNCHANGED <<program, webConfig>>

\* Reset button (app.js 456)
ResetClick ==
    /\ runsWeb
    /\ UNCHANGED notWeb
    /\ handleReset
    /\ lastOp' = <<"reset", "done", <<>>>>
    /\ UNCHANGED <<program, webConfig, historyStore, sessionCount>>

\* Simulate button (app.js 458-476)
SimulateClick ==
    /\ runsWeb
    /\ UNCHANGED notWeb
    /\ LET reason == simulateDecision(status, getVoiceMode, getKeyword) IN
       /\ \E t \in Times :
            IF reason = NULL
            THEN /\ UNCHANGED <<webSession, rafId, webVoice, historyStore,
                                sessionCount>>
                 /\ effectLog' = <<>>
            ELSE handleStop(Val(reason),
                            simulatedTranscript(getVoiceMode, getKeyword), t)
       /\ lastOp' = <<"simulate", IF reason = NULL THEN "ignored" ELSE "done",
                       simulatedTranscript(getVoiceMode, getKeyword)>>
    /\ UNCHANGED <<program, webConfig>>

\* Recognizer result event (app.js 277-289)
OnResult ==
    /\ runsWeb
    /\ UNCHANGED notWeb
    /\ recState \in {"listening", "stopping"}
    /\ \E raw \in Transcripts, t \in Times :
         LET transcript == Trim(raw) IN
         IF transcript = <<>>
         THEN /\ UNCHANGED webVars
              /\ effectLog' = <<>>
              /\ lastOp' = <<"result", "empty", transcript>>
         ELSE LET reason == maybeVoiceStop(status, voiceEnabledChecked,
                                           getVoiceMode, getKeyword, transcript)
              IN  /\ IF reason = NULL
                     THEN /\ UNCHANGED <<webSession, rafId, webVoice,
                                         historyStore, sessionCount>>
                          /\ effectLog' = <<>>
                     ELSE handleStop(Val(reason), transcript, t)
                  /\ lastOp' = <<"result", IF reason = NULL THEN "ignored" ELSE "done",
                                  transcript>>
                  /\ UNCHANGED webConfig
    /\ UNCHANGED program

\* Recognizer start event (app.js 258-261)
OnStart ==
    /\ runsWeb
    /\ UNCHANGED notWeb
    /\ recState = "starting"
    /\ recState' = "listening"
    /\ recognitionStarting' = FALSE
    /\ lastOp' = <<"onstart", "done", <<>>>>
    /\ effectLog' = <<>>
    /\ UNCHANGED <<program, webSession, rafId, recognition, webConfig,
                   historyStore, sessionCount>>

\* The end event with a handler that calls start() whatever the state.
OnEndRestartAlways ==
    /\ runsWeb
    /\ UNCHANGED notWeb
    /\ recState \in {"starting", "listening", "stopping"}
    /\ recState' = "starting"
    /\ recognitionStarting' = TRUE
    /\ lastOp' = <<"onend", "done", <<>>>>
    /\ effectLog' = <<>>
    /\ UNCHANGED <<program, webSession, rafId, recognition, webConfig,
                   historyStore, sessionCount>>

\* Recognizer end event (app.js 263-269, restored in 323-328)
OnEnd ==
    /\ runsWeb
    /\ UNCHANGED notWeb
    /\ recState \in {"starting", "listening", "stopping"}
    /\ LET ended == [voiceNow EXCEPT !.recState = "inactive"] IN
       IF /\ recognition = Some("restart")
          /\ status = "running" /\ voiceEnabledChecked /\ speechSupported
       THEN SetVoice(startRecognition(ended, status, voiceEnabledChecked,
                                      speechSupported))
       ELSE SetVoice(ended)
    /\ lastOp' = <<"onend", "done", <<>>>>
    /\ effectLog' = <<>>
    /\ UNCHANGED <<program, webSession, rafId, webConfig, historyStore,
                   sessionCount>>

\* The error event with a handler that resets the timer.
OnErrorResets ==
    /\ runsWeb
    /\ UNCHANGED notWeb
    /\ recState \in {"starting", "listening", "stopping"}
    /\ handleReset
    /\ lastOp' = <<"onerror", "done", <<>>>>
    /\ UNCHANGED <<program, webConfig, historyStore, sessionCount>>

\* Recognizer error event (app.js 271-275), of a stream that is starting,
\* listening or closing; the recognizer then ends.
OnError ==
    /\ runsWeb
    /\ UNCHANGED notWeb
    /\ recState \in {"starting", "listening", "stopping"}
    /\ recState' = "stopping"
    /\ lastOp' = <<"onerror", "done", <<>>>>
    /\ effectLog' = <<>>
    /\ UNCHANGED <<program, webSession, rafId, recognition, recognitionStarting,
                   webConfig, historyStore, sessionCount>>

\* Voice toggle (app.js 478-488); the checkbox is disabled when speech is
\* unsupported (app.js 444-445).
VoiceEnabledChange ==
    /\ runsWeb
    /\ UNCHANGED notWeb
    /\ speechSupported
    /\ voiceEnabledChecked' = ~voiceEnabledChecked
    /\ IF voiceEnabledChecked'
       THEN SetVoice(startRecognition(voiceNow, status, TRUE, speechSupported))
       ELSE SetVoice(stopRecognition(voiceNow))
    /\ lastOp' = <<"voiceEnabled", "done", <<>>>>
    /\ effectLog' = <<>>
    /\ UNCHANGED <<program, webSession, rafId, speechSupported,
                   voiceModeChecked, keywordInputValue, historyStore, sessionCount>>

\* Mode radio buttons (app.js 490-497); the fieldset is disabled when speech is
\* unsupported (app.js 446).
VoiceModeChange ==
    /\ runsWeb
    /\ UNCHANGED notWeb
    /\ speechSupported
    /\ voiceModeChecked' = IF voiceModeChecked = "any" THEN "keyword" ELSE "any"
    /\ lastOp' = <<"voiceMode", "done", <<>>>>
    /\ effectLog' = <<>>
    /\ UNCHANGED <<program, webSession, rafId, webVoice, speechSupported,
                   voiceEnabledChecked, keywordInputValue, historyStore, sessionCount>>

\* Keyword field (app.js 499-501), editable unless disabled (app.js 122)
KeywordInput ==
    /\ runsWeb
    /\ UNCHANGED notWeb
    /\ ~keywordInputDisabled
    /\ \E k \in KeywordInputs \ {keywordInputValue} : keywordInputValue' = k
    /\ lastOp' = <<"keyword", "done", <<>>>>
    /\ effectLog' = <<>>
    /\ UNCHANGED <<program, webSession, rafId, webVoice, speechSupported,
                   voiceEnabledChecked, voiceModeChecked, historyStore, sessionCount>>

\* ------------------------------------------------------ flowr-mockup/app.js
MS_PER_MINUTE == 60000
DEFAULT_MINUTES == 25
MIN_MINUTES == 1
MAX_MINUTES == 180

\* The mockup's clock readings: whole minutes.
MockTimes == { k * MS_PER_MINUTE : k \in Times }

\* What the duration field may hold: a number of minutes, or NULL for text
\* that Number() turns into NaN.
DurationInputs == { NULL, Some(0), Some(1), Some(2) }

\* readDurationMs (flowr-mockup/app.js 63-67)
readDurationMs(v) ==
    LET min == IF v # NULL THEN Max(MIN_MINUTES, Min(MAX_MINUTES, Val(v)))
               ELSE DEFAULT_MINUTES
    IN  min * MS_PER_MINUTE

\* stopLoop (flowr-mockup/app.js 106-109)
stopLoop(raf) == 0

\* renderFrame's test for the end of the countdown (flowr-mockup/app.js
\* 154-156, 170): p >= 1 || remaining <= 0
frameIsDue(t, startMs, endMs, dur) ==
    LET elapsed == Max(0, t - startMs)
        remaining == Max(0, endMs - t)
    IN  (dur > 0 /\ elapsed >= dur) \/ remaining <= 0

\* handleStart's guard (flowr-mockup/app.js 179)
mockStartGuard(st) == st # "running"

\* handleStop's guard (flowr-mockup/app.js 193)
mockStopGuard(st) == st = "running"

\* handleStart (flowr-mockup/app.js 178-190) at the clock reading t
mockHandleStart(t) ==
    IF ~mockStartGuard(mockStatus)
    THEN /\ UNCHANGED mockVars
         /\ lastOp' = <<"start", "ignored", <<>>>>
    ELSE /\ durationMs' = readDurationMs(durationMinValue)
         /\ mockStartedAtMs' = Some(t)
         /\ endsAtMs' = Some(t + durationMs')
         /\ mockStatus' = "running"
         /\ mockRafId' = requestAnimationFrame
         /\ lastOp' = <<"start", "done", <<>>>>
         /\ UNCHANGED durationMinValue

\* The start button at any clock reading
MockStart ==
    /\ program = "mockup"
    /\ UNCHANGED notMock
    /\ \E t \in MockTimes : mockHandleStart(t)
    /\ UNCHANGED program

\* handleStop (flowr-mockup/app.js 192-199)
MockStop ==
    /\ program = "mockup"
    /\ UNCHANGED notMock
    /\ IF ~mockStopGuard(mockStatus)
       THEN /\ UNCHANGED mockVars
            /\ lastOp' = <<"stop", "ignored", <<>>>>
       ELSE /\ mockStatus' = "stopped"
            /\ mockRafId' = stopLoop(mockRafId)
            /\ lastOp' = <<"stop", "done", <<>>>>
            /\ UNCHANGED <<mockStartedAtMs, endsAtMs, durationMs, durationMinValue>>
    /\ UNCHANGED program

\* handleReset (flowr-mockup/app.js 215-224)
MockReset ==
    /\ program = "mockup"
    /\ UNCHANGED notMock
    /\ mockRafId' = stopLoop(mockRafId)
    /\ mockStatus' = "idle"
    /\ mockStartedAtMs' = NULL
    /\ endsAtMs' = NULL
    /\ durationMs' = readDurationMs(durationMinValue)
    /\ lastOp' = <<"reset", "done", <<>>>>
    /\ UNCHANGED <<program, durationMinValue>>

\* renderFrame without its test of the status.
renderFrameAnyStatus(t) ==
    IF mockStartedAtMs = NULL \/ endsAtMs = NULL
    THEN /\ UNCHANGED mockVars
         /\ lastOp' = <<"frame", "ignored", <<>>>>
    ELSE IF frameIsDue(t, Val(mockStartedAtMs), Val(endsAtMs), durationMs)
         THEN /\ mockStatus' = "finished"
              /\ mockRafId' = stopLoop(mockRafId)
              /\ lastOp' = <<"finish", "done", <<>>>>
              /\ UNCHANGED <<mockStartedAtMs, endsAtMs, durationMs,
                             durationMinValue>>
         ELSE /\ mockRafId' = requestAnimationFrame
              /\ lastOp' = <<"frame", "done", <<>>>>
              /\ UNCHANGED <<mockStatus, mockStartedAtMs, endsAtMs, durationMs,
                             durationMinValue>>

\* renderFrame without the request for the next frame.
renderFrameOnce(t) ==
    IF mockStatus # "running" \/ mockStartedAtMs = NULL \/ endsAtMs = NULL
    THEN /\ UNCHANGED mockVars
         /\ lastOp' = <<"frame", "ignored", <<>>>>
    ELSE IF frameIsDue(t, Val(mockStartedAtMs), Val(endsAtMs), durationMs)
         THEN /\ mockStatus' = "finished"
              /\ mockRafId' = stopLoop(mockRafId)
              /\ lastOp' = <<"finish", "done", <<>>>>
              /\ UNCHANGED <<mockStartedAtMs, endsAtMs, durationMs,
                             durationMinValue>>
         ELSE /\ mockRafId' = 0
              /\ lastOp' = <<"frame", "done", <<>>>>
              /\ UNCHANGED <<mockStatus, mockStartedAtMs, endsAtMs, durationMs,
                             durationMinValue>>

\* renderFrame (flowr-mockup/app.js 150-176) with handleFinish (201-213), at
\* the clock reading t
renderFrame(t) ==
    IF mockStatus # "running" \/ mockStartedAtMs = NULL \/ endsAtMs = NULL
    THEN /\ UNCHANGED mockVars
         /\ lastOp' = <<"frame", "ignored", <<>>>>
    ELSE IF frameIsDue(t, Val(mockStartedAtMs), Val(endsAtMs), durationMs)
         THEN /\ mockStatus' = "finished"
              /\ mockRafId' = stopLoop(mockRafId)
              /\ lastOp' = <<"finish", "done", <<>>>>
              /\ UNCHANGED <<mockStartedAtMs, endsAtMs, durationMs,
                             durationMinValue>>
         ELSE /\ mockRafId' = requestAnimationFrame
              /\ lastOp' = <<"frame", "done", <<>>>>
              /\ UNCHANGED <<mockStatus, mockStartedAtMs, endsAtMs, durationMs,
                             durationMinValue>>

\* The scheduled animation frame fires and runs renderFrame
MockFrame ==
    /\ program = "mockup"
    /\ UNCHANGED notMock
    /\ mockRafId # 0
    /\ \E t \in MockTimes : renderFrame(t)
    /\ UNCHANGED program

\* A frame that was scheduled before stopLoop (flowr-mockup/app.js 106-109)
\* ran fires after it: renderFrame runs with no frame scheduled.
MockStaleFrame ==
    /\ program = "mockup"
    /\ UNCHANGED notMock
    /\ mockRafId = 0
    /\ \E t \in MockTimes : renderFrame(t)
    /\ UNCHANGED program

\* The countdown followed along a clock that advances by whole minutes up
\* to MaxClock minutes.
MaxClock == 3

\* nowMs() (flowr-mockup/app.js 40-42) returns a later reading.
CountdownTick ==
    /\ program = "mockup"
    /\ mockNow < MaxClock * MS_PER_MINUTE
    /\ mockNow' = mockNow + MS_PER_MINUTE
    /\ lastOp' = <<"tick", "done", <<>>>>
    /\ UNCHANGED <<program, effectLog, webVars, mockVars, botVars, fdVars,
                   raceVars>>

\* The start button at the clock's reading; a countdown that would end after
\* the last reading followed is not started.
CountdownStart ==
    /\ program = "mockup"
    /\ UNCHANGED notMock
    /\ mockNow + readDurationMs(durationMinValue) <= MaxClock * MS_PER_MINUTE
    /\ mockHandleStart(mockNow)
    /\ UNCHANGED program

\* The scheduled animation frame fires at the clock's reading
CountdownFrame ==
    /\ program = "mockup"
    /\ UNCHANGED notMock
    /\ mockRafId # 0
    /\ renderFrame(mockNow)
    /\ UNCHANGED program

\* The change handler without its test of the status, rescheduling the end.
MockDurationChangeRescheduling ==
    /\ program = "mockup"
    /\ UNCHANGED notMock
    /\ \E v \in DurationInputs \ {durationMinValue} :
         /\ durationMinValue' = v
         /\ durationMs' = readDurationMs(v)
         /\ endsAtMs' = IF mockStartedAtMs = NULL THEN endsAtMs
                        ELSE Some(Val(mockStartedAtMs) + readDurationMs(v))
    /\ lastOp' = <<"duration", "done", <<>>>>
    /\ UNCHANGED <<program, mockStatus, mockStartedAtMs, mockRafId>>

\* The duration field's change handler (flowr-mockup/app.js 231-234)
MockDurationChange ==
    /\ program = "mockup"
    /\ UNCHANGED notMock
    /\ \E v \in DurationInputs \ {durationMinValue} :
         /\ durationMinValue' = v
         /\ durationMs' = IF mockStatus = "running" THEN durationMs
                          ELSE readDurationMs(v)
    /\ lastOp' = <<"duration", "done", <<>>>>
    /\ UNCHANGED <<program, mockStatus, mockStartedAtMs, endsAtMs, mockRafId>>

\* ----------------------------------------------------------- discord-bot.js
\* At most this many handlers wait for their reply to be sent.
MaxInflight == 2

\* The record loadTimerState returns when there is no file (discord-bot.js
\* 97-106).  durationMs is a JSON value that the record's readers could find
\* null: it is held as Some(number).
defaultTimerState ==
    [status |-> "idle", startedAt |-> NULL, endedAt |-> NULL,
     durationMs |-> Some(0),
     stopReason |-> NULL, voiceEnabled |-> FALSE, voiceMode |-> NULL,
     keyword |-> NULL]

\* loadTimerState (discord-bot.js 88-107)
loadTimerState(file) ==
    IF file # NULL THEN JSONParse(file) ELSE defaultTimerState

\* saveTimerState (discord-bot.js 112-118): the file's new content.  When
\* writeFileSync fails the error is logged and the file is as it was.
saveTimerState(file, state) ==
    IF writable THEN JSONStringify(state) ELSE file

\* getTimerState (discord-bot.js 123-125)
getTimerState(file) == loadTimerState(file)

\* updateTimerState (discord-bot.js 130-135): the file's new content
updateTimerState(file, updates) ==
    LET current == loadTimerState(file)
        updated == updates @@ current
    IN  saveTimerState(file, updated)

\* The guard of timer-start and of the timer_start button (discord-bot.js
\* 314-318, 753-757)
botStartRejected(state) == state.status = "running"

\* timer-stop rejected only while the timer is idle.
botStopRejectedOnlyIdle(state) == state.status = "idle"

\* The guard of timer-stop and of the timer_stop button (discord-bot.js
\* 344-348, 780-784)
botStopRejected(state) == state.status # "running"

\* The duration timer-stop records (discord-bot.js 350-352, 786-788)
botDuration(state, endedAt) ==
    Max(0, DateParse(endedAt) - DateParse(state.startedAt))

\* timer-start leaving endedAt, durationMs and stopReason as they are.
botTimerStartKeepingEnd(name) ==
    \E t \in Times :
      LET state == getTimerState(timerStateFile) IN
      IF botStartRejected(state)
      THEN /\ UNCHANGED botVars
           /\ lastOp' = <<name, "ignored", <<>>>>
      ELSE /\ timerStateFile' = updateTimerState(timerStateFile,
                  [status |-> "running", startedAt |-> ToISOString(t)])
           /\ startReplies' = startReplies + 1
           /\ lastOp' = <<name, "done", <<>>>>
           /\ UNCHANGED <<updateInterval, stopReplies>>

\* timer-start up to its first await (discord-bot.js 313-329, 752-768)
botTimerStart(name) ==
    \E t \in Times :
      LET state == getTimerState(timerStateFile) IN
      IF botStartRejected(state)
      THEN /\ UNCHANGED botVars
           /\ lastOp' = <<name, "ignored", <<>>>>
      ELSE /\ timerStateFile' = updateTimerState(timerStateFile,
                  [status |-> "running", startedAt |-> ToISOString(t),
                   endedAt |-> NULL, durationMs |-> Some(0),
                   stopReason |-> NULL])
           /\ startReplies' = startReplies + 1
           /\ lastOp' = <<name, "done", <<>>>>
           /\ UNCHANGED <<updateInterval, stopReplies>>

\* timer-stop up to its first await (discord-bot.js 343-362, 779-798)
botTimerStop(name) ==
    \E t \in Times :
      LET state == getTimerState(timerStateFile) IN
      IF botStopRejected(state)
      THEN /\ UNCHANGED botVars
           /\ lastOp' = <<name, "ignored", <<>>>>
      ELSE /\ timerStateFile' = updateTimerState(timerStateFile,
                  [status |-> "stopped", endedAt |-> ToISOString(t),
                   durationMs |-> Some(botDuration(state, ToISOString(t))),
                   stopReason |-> Some("manual")])
           /\ stopReplies' = stopReplies + 1
           /\ lastOp' = <<name, "done", <<>>>>
           /\ UNCHANGED <<updateInterval, startReplies>>

\* timer-reset writing the status only.
botTimerResetStatusOnly(name) ==
    /\ timerStateFile' = updateTimerState(timerStateFile, [status |-> "idle"])
    /\ lastOp' = <<name, "done", <<>>>>
    /\ UNCHANGED <<updateInterval, startReplies, stopReplies>>

\* timer-reset (discord-bot.js 375-393, 809-825)
botTimerReset(name) ==
    /\ timerStateFile' = updateTimerState(timerStateFile,
           [status |-> "idle", startedAt |-> NULL, endedAt |-> NULL,
            durationMs |-> Some(0), stopReason |-> NULL])
    /\ lastOp' = <<name, "done", <<>>>>
    /\ UNCHANGED <<updateInterval, startReplies, stopReplies>>

\* startControlPanelUpdates (discord-bot.js 704-723)
startControlPanelUpdates(interval) ==
    IF interval # NULL THEN interval ELSE Some("interval")

\* stopControlPanelUpdates (discord-bot.js 725-730)
stopControlPanelUpdates(interval) == NULL

TimerStartCommand ==
    /\ runsBot
    /\ UNCHANGED <<program, notBot>>
    /\ startReplies + stopReplies < MaxInflight
    /\ botTimerStart("timer-start")
    /\ UNCHANGED botOther

TimerStartButton ==
    /\ runsBot
    /\ UNCHANGED <<program, notBot>>
    /\ startReplies + stopReplies < MaxInflight
    /\ botTimerStart("timer_start")
    /\ UNCHANGED botOther

TimerStopCommand ==
    /\ runsBot
    /\ UNCHANGED <<program, notBot>>
    /\ startReplies + stopReplies < MaxInflight
    /\ botTimerStop("timer-stop")
    /\ UNCHANGED botOther

TimerStopButton ==
    /\ runsBot
    /\ UNCHANGED <<program, notBot>>
    /\ startReplies + stopReplies < MaxInflight
    /\ botTimerStop("timer_stop")
    /\ UNCHANGED botOther

TimerResetCommand ==
    /\ runsBot
    /\ UNCHANGED <<program, notBot>>
    /\ botTimerReset("timer-reset")
    /\ UNCHANGED botOther

TimerResetButton ==
    /\ runsBot
    /\ UNCHANGED <<program, notBot>>
    /\ botTimerReset("timer_reset")
    /\ UNCHANGED botOther

\* timer-start after its reply was sent (discord-bot.js 331-338, 770-777)
StartReplied ==
    /\ runsBot
    /\ UNCHANGED <<program, notBot>>
    /\ startReplies > 0
    /\ startReplies' = startReplies - 1
    /\ updateInterval' = startControlPanelUpdates(updateInterval)
    /\ lastOp' = <<"start-replied", "done", <<>>>>
    /\ UNCHANGED <<timerStateFile, stopReplies, botOther>>

\* timer-stop after its reply was sent (discord-bot.js 364-371, 800-807)
StopReplied ==
    /\ runsBot
    /\ UNCHANGED <<program, notBot>>
    /\ stopReplies > 0
    /\ stopReplies' = stopReplies - 1
    /\ updateInterval' = stopControlPanelUpdates(updateInterval)
    /\ lastOp' = <<"stop-replied", "done", <<>>>>
    /\ UNCHANGED <<timerStateFile, startReplies, botOther>>

\* timer-status and the timer_status button (discord-bot.js 395-418, 826-847):
\* they read the record and reply with what they read
TimerStatus ==
    /\ runsBot
    /\ UNCHANGED <<program, notBot>>
    /\ \E name \in {"timer-status", "timer_status"} :
         lastOp' = <<name, getTimerState(timerStateFile).status, <<>>>>
    /\ UNCHANGED botVars

\* The panel update saving the record it renders.
PanelRenderSaving ==
    /\ runsBot
    /\ UNCHANGED <<program, notBot>>
    /\ \E i \in 1..Len(panelUpdates) :
         /\ panelUpdates' = SubSeq(panelUpdates, 1, i - 1)
                              \o SubSeq(panelUpdates, i + 1, Len(panelUpdates))
         /\ lastOp' = <<"panel-render", getTimerState(timerStateFile).status,
                         <<panelUpdates[i]>>>>
    /\ timerStateFile' = saveTimerState(timerStateFile,
                                        getTimerState(timerStateFile))
    /\ UNCHANGED <<updateInterval, startReplies, stopReplies,
                   connectedAgents, writable>>

\* The interval's callback (discord-bot.js 707-722) and the timer_refresh
\* button (848-857) up to updateControlPanel's first await (563).  The
\* callback reads the record and goes on only when the timer is running.
PanelRefresh ==
    /\ runsBot
    /\ UNCHANGED <<program, notBot>>
    /\ startReplies + stopReplies + Len(panelUpdates) < MaxInflight
    /\ \E name \in {"timer_refresh"} \cup
                   (IF updateInterval # NULL THEN {"interval"} ELSE {}) :
         LET state == getTimerState(timerStateFile) IN
         /\ panelUpdates' =
               IF name = "interval" /\ state.status # "running"
               THEN panelUpdates
               ELSE Append(panelUpdates, state.status)
         /\ lastOp' = <<name, state.status, <<>>>>
    /\ UNCHANGED <<timerStateFile, updateInterval, startReplies, stopReplies,
                   connectedAgents, writable>>

\* updateControlPanel after its awaits (discord-bot.js 566-569):
\* buildControlPanel (487-556) reads the record again and the message is
\* edited.  lastOp holds the status rendered and the one read at the start.
PanelRender ==
    /\ runsBot
    /\ UNCHANGED <<program, notBot>>
    /\ \E i \in 1..Len(panelUpdates) :
         /\ panelUpdates' = SubSeq(panelUpdates, 1, i - 1)
                              \o SubSeq(panelUpdates, i + 1, Len(panelUpdates))
         /\ lastOp' = <<"panel-render", getTimerState(timerStateFile).status,
                         <<panelUpdates[i]>>>>
    /\ UNCHANGED <<timerStateFile, updateInterval, startReplies, stopReplies,
                   connectedAgents, writable>>

\* The file system starts or stops refusing writes to timer-state.json (disk
\* full, permissions): writeFileSync (discord-bot.js 114) throws while it does.
WriteFault ==
    /\ runsBot
    /\ UNCHANGED <<program, notBot>>
    /\ writable' = ~writable
    /\ lastOp' = <<"write-fault", IF writable THEN "begins" ELSE "ends", <<>>>>
    /\ UNCHANGED <<timerStateFile, updateInterval, startReplies, stopReplies,
                   panelUpdates, connectedAgents>>

\* Discord users who give the agent commands; interaction.user.username
UserIds == {"u1", "u2"}
usernameOf(userId) == <<"name", userId>>

\* connectedAgents.has(userId)
hasAgent(agents, userId) == \E i \in 1..Len(agents) : agents[i].userId = userId

\* registerAgent (discord-bot.js 170-180) called at clock reading t.  Map.set
\* replaces the value of a key that is present and keeps its place, and puts
\* a new key last.
registerAgent(agents, userId, username, t) ==
    LET agentInfo == [userId |-> userId, username |-> username,
                      connectedAt |-> t, status |-> "active"]
    IN  IF hasAgent(agents, userId)
        THEN [i \in 1..Len(agents) |->
                IF agents[i].userId = userId THEN agentInfo ELSE agents[i]]
        ELSE Append(agents, agentInfo)

\* unregisterAgent emptying the Map when the user is connected.
unregisterAgentClearing(agents, userId) ==
    IF hasAgent(agents, userId) THEN <<>> ELSE agents

\* unregisterAgent (discord-bot.js 185-193): the Map afterwards
unregisterAgent(agents, userId) ==
    IF hasAgent(agents, userId)
    THEN SelectSeq(agents, LAMBDA a : a.userId # userId)
    ELSE agents

\* agent-connect registering whether or not the user is connected.
agentConnectAlways(agents, userId, t) ==
    registerAgent(agents, userId, usernameOf(userId), t)

\* agent-connect (discord-bot.js 420-433): the Map afterwards
agentConnect(agents, userId, t) ==
    IF hasAgent(agents, userId) THEN agents
    ELSE registerAgent(agents, userId, usernameOf(userId), t)

\* agent-disconnect (discord-bot.js 435-446): the Map afterwards
agentDisconnect(agents, userId) == unregisterAgent(agents, userId)

\* lastOp holds the user in place of a transcript.
AgentConnect ==
    /\ runsAgents
    /\ UNCHANGED <<program, notBot>>
    /\ \E userId \in UserIds, t \in Times :
         /\ connectedAgents' = agentConnect(connectedAgents, userId, t)
         /\ lastOp' = <<"agent-connect",
                         IF hasAgent(connectedAgents, userId) THEN "ignored"
                         ELSE "done", <<userId>>>>
    /\ UNCHANGED <<timerStateFile, updateInterval, startReplies, stopReplies,
                   panelUpdates, writable>>

AgentDisconnect ==
    /\ runsAgents
    /\ UNCHANGED <<program, notBot>>
    /\ \E userId \in UserIds :
         /\ connectedAgents' = agentDisconnect(connectedAgents, userId)
         /\ lastOp' = <<"agent-disconnect",
                         IF hasAgent(connectedAgents, userId) THEN "done"
                         ELSE "ignored", <<userId>>>>
    /\ UNCHANGED <<timerStateFile, updateInterval, startReplies, stopReplies,
                   panelUpdates, writable>>

\* GuildMemberRemove (discord-bot.js 896-898)
GuildMemberRemove ==
    /\ runsAgents
    /\ UNCHANGED <<program, notBot>>
    /\ \E userId \in UserIds :
         /\ connectedAgents' = unregisterAgent(connectedAgents, userId)
         /\ lastOp' = <<"member-removed",
                         IF hasAgent(connectedAgents, userId) THEN "done"
                         ELSE "ignored", <<userId>>>>
    /\ UNCHANGED <<timerStateFile, updateInterval, startReplies, stopReplies,
                   panelUpdates, writable>>

\* ------------------------------------- two processes on one timer-state.json
\* Two processes run the command handlers of discord-bot.js against the same
\* file.  A handler reads the file at getTimerState (314, 344), again at
\* updateTimerState's loadTimerState (131), and writes it at saveTimerState
\* (133); the other process may read or write the file between any two of
\* these.
RaceActors == {"A", "B"}
MaxRaceCommands == 3

raceReady == [pc |-> "ready", cmd |-> "none", updates |-> <<>>, updated |-> <<>>]

\* timer-start, timer-stop up to the call of updateTimerState (313-320,
\* 343-352): the guard read and the updates the handler will ask for.
\* timer-reset (376) has no guard.
RaceCommand ==
    /\ program = "race"
    /\ raceCommands < MaxRaceCommands
    /\ \E a \in RaceActors, cmd \in {"start", "stop", "reset"}, t \in Times :
         LET state == getTimerState(timerStateFile)
             rejected == \/ cmd = "start" /\ botStartRejected(state)
                         \/ cmd = "stop" /\ botStopRejected(state)
             updates ==
               CASE cmd = "start" ->
                      [status |-> "running", startedAt |-> ToISOString(t),
                       endedAt |-> NULL, durationMs |-> Some(0),
                       stopReason |-> NULL]
                 [] cmd = "stop" ->
                      [status |-> "stopped", endedAt |-> ToISOString(t),
                       durationMs |-> Some(botDuration(state, ToISOString(t))),
                       stopReason |-> Some("manual")]
                 [] cmd = "reset" ->
                      [status |-> "idle", startedAt |-> NULL, endedAt |-> NULL,
                       durationMs |-> Some(0), stopReason |-> NULL]
         IN  /\ raceActors[a].pc = "ready"
             /\ raceActors' =
                   IF rejected THEN raceActors
                   ELSE [raceActors EXCEPT ![a] =
                           [pc |-> "update", cmd |-> cmd, updates |-> updates,
                            updated |-> <<>>]]
             /\ lastOp' = <<"race-" \o cmd, IF rejected THEN "ignored" ELSE "done", <<>>>>
    /\ raceCommands' = raceCommands + 1
    /\ UNCHANGED <<program, effectLog, mockNow, webVars, mockVars, botVars, fdVars>>

\* updateTimerState, lines 131-132: re-read and merge
RaceLoad ==
    /\ program = "race"
    /\ \E a \in RaceActors :
         /\ raceActors[a].pc = "update"
         /\ raceActors' =
               [raceActors EXCEPT ![a].pc = "save",
                  ![a].updated = raceActors[a].updates @@ loadTimerState(timerStateFile)]
    /\ lastOp' = <<"race-load", "done", <<>>>>
    /\ UNCHANGED <<program, effectLog, mockNow, webVars, mockVars, botVars, fdVars,
                   raceCommands>>

\* updateTimerState, line 133: saveTimerState(updated)
RaceSave ==
    /\ program = "race"
    /\ \E a \in RaceActors :
         /\ raceActors[a].pc = "save"
         /\ timerStateFile' = saveTimerState(timerStateFile, raceActors[a].updated)
         /\ raceActors' = [raceActors EXCEPT ![a] = raceReady]
         /\ lastOp' = <<"race-save", raceActors[a].cmd, <<>>>>
    /\ UNCHANGED <<program, effectLog, mockNow, webVars, mockVars, updateInterval,
                   startReplies, stopReplies, botOther, fdVars, raceCommands>>

\* ---------------------------------------------------------------- finishIfDue
UNDEFINED == <<"undefined", "undefined">>

\* JavaScript's !x for a number, null or undefined
Falsy(x) == x = NULL \/ x = UNDEFINED \/ x = Some(0)

\* finishIfDue without its test of the status.
finishIfDueAnyStatus(state, now) ==
    IF state = NULL THEN state
    ELSE LET autoFinishTs == Val(state).autoFinishTs IN
         IF Falsy(autoFinishTs) THEN state
         ELSE IF now < Val(autoFinishTs) THEN state
         ELSE LET finished == [Val(state) EXCEPT !.finishTs = autoFinishTs]
              IN  Some([finished EXCEPT !.status = "finished"])

\* finishIfDue recording the instant of the evaluation.
finishIfDueAtNow(state, now) ==
    IF state = NULL \/ Val(state).status # "running" THEN state
    ELSE LET autoFinishTs == Val(state).autoFinishTs IN
         IF Falsy(autoFinishTs) THEN state
         ELSE IF now < Val(autoFinishTs) THEN state
         ELSE LET finished == [Val(state) EXCEPT !.finishTs = Some(now)]
              IN  Some([finished EXCEPT !.status = "finished"])

\* finishIfDue finishing only after the scheduled instant has passed.
finishIfDueAfterSchedule(state, now) ==
    IF state = NULL \/ Val(state).status # "running" THEN state
    ELSE LET autoFinishTs == Val(state).autoFinishTs IN
         IF Falsy(autoFinishTs) THEN state
         ELSE IF now <= Val(autoFinishTs) THEN state
         ELSE LET finished == [Val(state) EXCEPT !.finishTs = autoFinishTs]
              IN  Some([finished EXCEPT !.status = "finished"])

\* finishIfDue (app.js 209-220)
finishIfDue(state, now) ==
    IF state = NULL \/ Val(state).status # "running" THEN state
    ELSE LET autoFinishTs == Val(state).autoFinishTs IN
         IF Falsy(autoFinishTs) THEN state
         ELSE IF now < Val(autoFinishTs) THEN state
         ELSE LET finished == [Val(state) EXCEPT !.finishTs = autoFinishTs]
              IN  Some([finished EXCEPT !.status = "finished"])

Observers == {1, 2}
FinishNows == 0..(MaxTime + 1)

\* The state objects finishIfDue is given
FinishStates ==
    {NULL} \cup
    { Some([status |-> st, startTs |-> 0, autoFinishTs |-> a, finishTs |-> f]) :
        st \in {"running", "finished"},
        a \in {NULL, UNDEFINED} \cup { Some(n) : n \in Times },
        f \in {NULL} \cup { Some(n) : n \in Times } }

\* An observer polls: state = finishIfDue(state, now)
Poll ==
    /\ program = "finishIfDue"
    /\ UNCHANGED <<program, notFd, fdInput>>
    /\ \E o \in Observers, now \in FinishNows :
         /\ fdState' = [fdState EXCEPT ![o] = finishIfDue(fdState[o], now)]
         /\ fdNow' = [fdNow EXCEPT ![o] = now]
         /\ lastOp' = <<"poll", IF fdNow[o] = -1 THEN "first" ELSE "again", <<>>>>

\* ------------------------------------------------------------------- init
\* app.js 49-70 and init (509-516)
InitWeb ==
    /\ status = "idle"
    /\ startedAtMs = NULL
    /\ endedAtMs = NULL
    /\ stopReason = NULL
    /\ rafId = 0
    /\ recognition = NULL
    /\ recognitionStarting = FALSE
    /\ recState = "inactive"
    /\ voiceEnabledChecked = FALSE
    /\ voiceModeChecked = "any"
    /\ keywordInputValue = <<>>
    /\ historyStore \in (IF program = "web" THEN StoredHistories ELSE {NULL})
    /\ sessionCount = 0

\* flowr-mockup/app.js 29-38 and init (241-246)
InitMock ==
    /\ mockStatus = "idle"
    /\ mockStartedAtMs = NULL
    /\ endsAtMs = NULL
    /\ durationMs = DEFAULT_MINUTES * MS_PER_MINUTE
    /\ mockRafId = 0
    /\ durationMinValue = Some(DEFAULT_MINUTES)
    /\ mockNow = 0

\* discord-bot.js 83, 702: no state file yet, no interval
InitBot ==
    /\ timerStateFile = NULL
    /\ updateInterval = NULL
    /\ startReplies = 0
    /\ stopReplies = 0
    /\ panelUpdates = <<>>
    /\ connectedAgents = <<>>
    /\ writable = TRUE

InitFd ==
    /\ fdInput \in (IF program = "finishIfDue" THEN FinishStates ELSE {NULL})
    /\ fdState = [o \in Observers |-> fdInput]
    /\ fdNow = [o \in Observers |-> -1]

InitRace ==
    /\ raceActors = [a \in RaceActors |-> raceReady]
    /\ raceCommands = 0

Init ==
    /\ program \in {"web", "mockup", "bot", "agents", "finishIfDue"}
    /\ lastOp = <<"init", "init", <<>>>>
    /\ effectLog = <<>>
    /\ speechSupported \in (IF program = "web" THEN BOOLEAN ELSE {FALSE})
    /\ InitWeb
    /\ InitMock
    /\ InitBot
    /\ InitFd
    /\ InitRace

Next ==
    \/ StartClick
    \/ StopClick
    \/ ResetClick
    \/ SimulateClick
    \/ OnResult
    \/ OnStart
    \/ OnEnd
    \/ OnError
    \/ VoiceEnabledChange
    \/ VoiceModeChange
    \/ KeywordInput
    \/ MockStart
    \/ MockStop
    \/ MockReset
    \/ MockFrame
    \/ MockStaleFrame
    \/ MockDurationChange
    \/ TimerStartCommand
    \/ TimerStartButton
    \/ TimerStopCommand
    \/ TimerStopButton
    \/ TimerResetCommand
    \/ TimerResetButton
    \/ StartReplied
    \/ StopReplied
    \/ TimerStatus
    \/ PanelRefresh
    \/ PanelRender
    \/ AgentConnect
    \/ AgentDisconnect
    \/ GuildMemberRemove
    \/ Poll

Spec == Init /\ [][Next]_vars

\* The deployment README.md 43 describes: the web page (in a browser without
\* speech recognition) and the bot run at the same time, and commands are
\* given to either of them.
InitDeployment ==
    /\ program = "deployment"
    /\ lastOp = <<"init", "init", <<>>>>
    /\ effectLog = <<>>
    /\ speechSupported = FALSE
    /\ InitWeb
    /\ InitMock
    /\ InitBot
    /\ InitFd
    /\ InitRace

NextDeployment ==
    \/ StartClick
    \/ StopClick
    \/ ResetClick
    \/ SimulateClick
    \/ TimerStartCommand
    \/ TimerStartButton
    \/ TimerStopCommand
    \/ TimerStopButton
    \/ TimerResetCommand
    \/ TimerResetButton
    \/ StartReplied
    \/ StopReplied
    \/ TimerStatus

SpecDeployment == InitDeployment /\ [][NextDeployment]_vars

\* The bot on a file system whose writes may fail.
InitFaulty == Init /\ program = "bot"

NextFaulty ==
    \/ TimerStartCommand
    \/ TimerStartButton
    \/ TimerStopCommand
    \/ TimerStopButton
    \/ TimerResetCommand
    \/ TimerResetButton
    \/ StartReplied
    \/ StopReplied
    \/ TimerStatus
    \/ PanelRefresh
    \/ PanelRender
    \/ WriteFault

SpecFaulty == InitFaulty /\ [][NextFaulty]_vars

\* The bot receiving timer-start and timer-stop interactions only (no
\* timer-reset): the handlers interleave at their awaits, the replies
\* complete in any order, the interval's callback and the refresh button
\* observe.
InitInterleavings == Init /\ program = "bot"

NextInterleavings ==
    \/ TimerStartCommand
    \/ TimerStartButton
    \/ TimerStopCommand
    \/ TimerStopButton
    \/ StartReplied
    \/ StopReplied
    \/ PanelRefresh
    \/ PanelRender

SpecInterleavings == InitInterleavings /\ [][NextInterleavings]_vars

\* The countdown mockup along an advancing clock: animation frames keep
\* occurring (a scheduled frame fires) and the clock keeps advancing.
InitCountdown == Init /\ program = "mockup"

NextCountdown ==
    \/ CountdownStart
    \/ MockStop
    \/ MockReset
    \/ CountdownFrame
    \/ MockDurationChange
    \/ CountdownTick

SpecCountdown ==
    /\ InitCountdown
    /\ [][NextCountdown]_vars
    /\ WF_vars(CountdownFrame)
    /\ WF_vars(CountdownTick)

\* Two bot processes started on the same timer-state.json.
InitRaces ==
    /\ program = "race"
    /\ lastOp = <<"init", "init", <<>>>>
    /\ effectLog = <<>>
    /\ speechSupported = FALSE
    /\ InitWeb
    /\ InitMock
    /\ InitBot
    /\ InitFd
    /\ InitRace

NextRaces ==
    \/ RaceCommand
    \/ RaceLoad
    \/ RaceSave

SpecRaces == InitRaces /\ [][NextRaces]_vars

\* ------------------------------------------------------------- properties
\* Every action sets lastOp to the handler it ran, so a step with
\* lastOp'[1] = h is a run of handler h from the state before the step.
\* C1: a start command given while the status is running changes nothing: the
\* session fields (startedAt among them) and everything else the program
\* holds stay as they were.  Web timer, mockup, and the bot's timer-start
\* command and timer_start button.
C1_StartWhileRunningIsNoOp ==
    [][ /\ (lastOp'[1] = "start" /\ program = "web" /\ status = "running")
           => UNCHANGED webVars
        /\ (lastOp'[1] = "start" /\ program = "mockup" /\ mockStatus = "running")
           => UNCHANGED mockVars
        /\ (lastOp'[1] \in {"timer-start", "timer_start"}
              /\ getTimerState(timerStateFile).status = "running")
           => UNCHANGED botVars ]_vars

\* A start command was given to the running web timer.
C1_Witness ==
    /\ program = "web"
    /\ lastOp = <<"start", "ignored", <<>>>>
    /\ status = "running"
    /\ startedAtMs # NULL

\* C2: a stop command given while the status is not running changes nothing
\* and adds no history entry; the bot's timer-stop and timer_stop on a timer
\* that is not running write nothing.
C2_StopWhileNotRunningIsNoOp ==
    [][ /\ (lastOp'[1] = "stop" /\ program = "web" /\ status # "running")
           => UNCHANGED webVars
        /\ (lastOp'[1] \in {"timer-stop", "timer_stop"}
              /\ getTimerState(timerStateFile).status # "running")
           => UNCHANGED botVars ]_vars

\* A stop command was given to the web timer after it had stopped: the
\* history still holds the one session.
C2_Witness ==
    /\ program = "web"
    /\ lastOp = <<"stop", "ignored", <<>>>>
    /\ status = "stopped"
    /\ Len(loadHistory(historyStore)) = 1

\* C3: the duration recorded for a stopped session is
\* max(0, endedAt - startedAt), hence never negative, also when the clock
\* went backwards between start and stop: every entry of the web timer's
\* history, whose newest entry is the stopped session, and the bot's
\* persisted record.
C3_DurationIsClampedDifference ==
    /\ \A i \in 1..Len(loadHistory(historyStore)) :
         LET e == loadHistory(historyStore)[i] IN
         /\ e.durationMs >= 0
         /\ e.durationMs = Max(0, DateParse(e.endedAt) - DateParse(e.startedAt))
    /\ status = "stopped" =>
         /\ loadHistory(historyStore)[1].startedAt = ToISOString(Val(startedAtMs))
         /\ loadHistory(historyStore)[1].endedAt = ToISOString(Val(endedAtMs))
    /\ LET r == loadTimerState(timerStateFile) IN
       r.status = "stopped" =>
         /\ Val(r.durationMs) >= 0
         /\ Val(r.durationMs) =
               Max(0, DateParse(r.endedAt) - DateParse(r.startedAt))

\* The web timer stopped at a clock reading earlier than the one it started at.
C3_Witness ==
    /\ program = "web"
    /\ status = "stopped"
    /\ Val(endedAtMs) < Val(startedAtMs)
    /\ loadHistory(historyStore)[1].durationMs = 0

\* C4: reset ends in idle with startedAt, endedAt and stopReason cleared and
\* the history as it was, whatever the state it is given in, and a reset that
\* follows a reset changes nothing.  Web timer, mockup, and the bot's
\* timer-reset command and timer_reset button (storage that does not fail).
C4_ResetEndsIdle ==
    [][ /\ (lastOp'[1] = "reset" /\ program = "web") =>
             /\ status' = "idle"
             /\ startedAtMs' = NULL /\ endedAtMs' = NULL /\ stopReason' = NULL
             /\ historyStore' = historyStore
             /\ lastOp[1] = "reset" => UNCHANGED webVars
        /\ (lastOp'[1] = "reset" /\ program = "mockup") =>
             /\ mockStatus' = "idle"
             /\ mockStartedAtMs' = NULL /\ endsAtMs' = NULL
             /\ lastOp[1] = "reset" => UNCHANGED mockVars
        /\ lastOp'[1] \in {"timer-reset", "timer_reset"} =>
             /\ LET r == loadTimerState(timerStateFile') IN
                /\ r.status = "idle"
                /\ r.startedAt = NULL /\ r.endedAt = NULL /\ r.stopReason = NULL
             /\ lastOp[1] \in {"timer-reset", "timer_reset"} => UNCHANGED botVars
      ]_vars

\* The web timer was reset after a session had been stopped and recorded.
C4_Witness ==
    /\ program = "web"
    /\ lastOp = <<"reset", "done", <<>>>>
    /\ status = "idle"
    /\ startedAtMs = NULL /\ endedAtMs = NULL /\ stopReason = NULL
    /\ Len(loadHistory(historyStore)) = 1


\* C5: in keyword mode with a non-empty keyword, while running with voice
\* enabled, a recognized utterance stops the timer with reason voice_keyword
\* when its lower-cased text contains the lower-cased keyword, and otherwise
\* changes nothing.
C5_KeywordMatchStops ==
    [][ (/\ program = "web"
         /\ lastOp'[1] = "result" /\ lastOp'[2] # "empty"
         /\ status = "running" /\ voiceEnabledChecked
         /\ getVoiceMode = "keyword" /\ getKeyword # <<>>)
        => IF Includes(ToLowerCase(lastOp'[3]), ToLowerCase(getKeyword))
           THEN /\ status' = "stopped"
                /\ stopReason' = Some("voice_keyword")
                /\ loadHistory(historyStore')[1].id = sessionCount + 1
                /\ loadHistory(historyStore')[1].stopReason = "voice_keyword"
           ELSE UNCHANGED webVars ]_vars

\* An utterance in capitals stopped the timer on a keyword typed in mixed case.
C5_Witness ==
    /\ program = "web"
    /\ lastOp = <<"result", "done", <<"S", "T", "O", "P">>>>
    /\ voiceEnabledChecked /\ getVoiceMode = "keyword"
    /\ getKeyword = <<"T", "o">>
    /\ status = "stopped"
    /\ stopReason = Some("voice_keyword")

\* C6: in keyword mode with an empty or whitespace-only keyword no utterance
\* stops the timer: the session stays running and no history entry is added.
C6_EmptyKeywordNeverStops ==
    [][ (/\ program = "web"
         /\ lastOp'[1] = "result"
         /\ status = "running"
         /\ getVoiceMode = "keyword" /\ getKeyword = <<>>)
        => /\ UNCHANGED webVars
           /\ status' = "running" ]_vars

\* An utterance was heard while running with voice enabled, keyword mode and a
\* keyword of one space.
C6_Witness ==
    /\ program = "web"
    /\ lastOp[1] = "result" /\ lastOp[2] = "ignored"
    /\ status = "running" /\ voiceEnabledChecked
    /\ getVoiceMode = "keyword"
    /\ keywordInputValue = <<" ">>

\* C7: in any mode a non-empty utterance stops the timer with reason voice_any
\* when the timer is running and voice is enabled; an utterance heard while
\* the timer is not running or voice is disabled changes nothing, whatever
\* the mode and the keyword.
C7_AnyModeStopsOnlyWhenArmed ==
    [][ (/\ program = "web"
         /\ lastOp'[1] = "result" /\ lastOp'[2] # "empty")
        => /\ (status = "running" /\ voiceEnabledChecked /\ getVoiceMode = "any")
              => /\ status' = "stopped"
                 /\ stopReason' = Some("voice_any")
                 /\ loadHistory(historyStore')[1].id = sessionCount + 1
           /\ (status # "running" \/ ~voiceEnabledChecked)
              => UNCHANGED webVars ]_vars

\* An utterance stopped the timer in any mode, and a later utterance, heard
\* after the stop, was ignored.
C7_Witness ==
    /\ program = "web"
    /\ lastOp[1] = "result" /\ lastOp[2] = "ignored"
    /\ status = "stopped"
    /\ stopReason = Some("voice_any")
    /\ voiceEnabledChecked /\ getVoiceMode = "any"

\* C8 as stated: for every status, voice-enabled flag, mode and keyword the
\* simulate button does what maybeVoiceStop decides for the simulated
\* utterance.
C8_SimulateEqualsPolicyEverywhere ==
    [][ lastOp'[1] = "simulate" =>
          LET r == maybeVoiceStop(status, voiceEnabledChecked, getVoiceMode,
                                  getKeyword,
                                  simulatedTranscript(getVoiceMode, getKeyword))
          IN  IF r = NULL THEN UNCHANGED webVars
              ELSE status' = "stopped" /\ stopReason' = r ]_vars

\* C8: the simulate button does what maybeVoiceStop decides for the simulated
\* utterance when the timer is not running, or when voice is enabled and the
\* mode is any or the keyword is non-empty.
C8_SimulateEqualsPolicyWhenArmed ==
    [][ (/\ lastOp'[1] = "simulate"
         /\ \/ status # "running"
            \/ /\ voiceEnabledChecked
               /\ getVoiceMode = "any" \/ getKeyword # <<>>)
        => LET r == maybeVoiceStop(status, voiceEnabledChecked, getVoiceMode,
                                   getKeyword,
                                   simulatedTranscript(getVoiceMode, getKeyword))
           IN  IF r = NULL THEN UNCHANGED webVars
               ELSE status' = "stopped" /\ stopReason' = r ]_vars

\* Simulate stopped the timer with voice enabled, keyword mode and a keyword.
C8_Witness ==
    /\ program = "web"
    /\ lastOp[1] = "simulate" /\ lastOp[2] = "done"
    /\ voiceEnabledChecked /\ getVoiceMode = "keyword" /\ getKeyword # <<>>
    /\ status = "stopped"
    /\ stopReason = Some("voice_keyword")

\* C9: while the timer is running the simulate button stops it, with reason
\* voice_any in any mode and voice_keyword in keyword mode, whether or not
\* speech recognition is supported, voice is enabled or the keyword is empty;
\* while the timer is not running it changes nothing.
C9_SimulateStopsWheneverRunning ==
    [][ lastOp'[1] = "simulate" =>
          IF status = "running"
          THEN /\ status' = "stopped"
               /\ stopReason' = Some(IF getVoiceMode = "any" THEN "voice_any"
                                     ELSE "voice_keyword")
               /\ endedAtMs' # NULL
               /\ loadHistory(historyStore')[1].id = sessionCount + 1
          ELSE UNCHANGED webVars ]_vars

\* Simulate stopped the timer with voice off, keyword mode and no keyword.
C9_Witness ==
    /\ program = "web"
    /\ lastOp[1] = "simulate" /\ lastOp[2] = "done"
    /\ ~voiceEnabledChecked /\ getVoiceMode = "keyword" /\ getKeyword = <<>>
    /\ status = "stopped"
    /\ stopReason = Some("voice_keyword")

\* C10 as stated: for a running state whose autoFinishTs is a number, every
\* observer that has evaluated finishIfDue at an instant now >= autoFinishTs
\* holds a finished record with finishTs = autoFinishTs, so two such observers
\* hold the same record.
C10_FinishAtScheduleForEveryNumber ==
    (/\ fdInput # NULL
     /\ Val(fdInput).status = "running"
     /\ Val(fdInput).autoFinishTs \notin {NULL, UNDEFINED})
    => /\ \A o \in Observers :
            fdNow[o] >= Val(Val(fdInput).autoFinishTs)
            => /\ Val(fdState[o]).status = "finished"
               /\ Val(fdState[o]).finishTs = Val(fdInput).autoFinishTs
       /\ \A o1, o2 \in Observers :
            (/\ fdNow[o1] >= Val(Val(fdInput).autoFinishTs)
             /\ fdNow[o2] >= Val(Val(fdInput).autoFinishTs))
            => fdState[o1] = fdState[o2]

\* C10: the same for a running state whose autoFinishTs is a number other
\* than 0 (finishIfDue takes 0 for "no finish scheduled").
C10_FinishAtScheduleNotNow ==
    (/\ fdInput # NULL
     /\ Val(fdInput).status = "running"
     /\ Val(fdInput).autoFinishTs \notin {NULL, UNDEFINED, Some(0)})
    => /\ \A o \in Observers :
            fdNow[o] >= Val(Val(fdInput).autoFinishTs)
            => /\ Val(fdState[o]).status = "finished"
               /\ Val(fdState[o]).finishTs = Val(fdInput).autoFinishTs
               /\ Val(fdState[o]).startTs = Val(fdInput).startTs
       /\ \A o1, o2 \in Observers :
            (/\ fdNow[o1] >= Val(Val(fdInput).autoFinishTs)
             /\ fdNow[o2] >= Val(Val(fdInput).autoFinishTs))
            => fdState[o1] = fdState[o2]

\* Two observers evaluated a state due at 1, one at the due instant and one
\* later, and both hold the record finished at 1.
C10_Witness ==
    /\ program = "finishIfDue"
    /\ fdInput # NULL
    /\ Val(fdInput).status = "running"
    /\ Val(fdInput).autoFinishTs = Some(1)
    /\ fdNow[1] = 1 /\ fdNow[2] > 1
    /\ Val(fdState[1]).status = "finished"
    /\ Val(fdState[2]).finishTs = Some(1)
    /\ fdState[1] = fdState[2]

\* C11 as stated: for every state s and instants n1, n2, evaluating the
\* result of finishIfDue(s, n1) again at n2 returns it unchanged.
C11_EveryReevaluationIsNoOp ==
    \A o \in Observers, n2 \in FinishNows :
       fdNow[o] # -1 => finishIfDue(fdState[o], n2) = fdState[o]

\* C11: evaluating a finished state again, at any instant, returns it
\* unchanged, finishTs included: finishIfDue(finishIfDue(s, n1), n2) equals
\* finishIfDue(s, n1) whenever finishIfDue(s, n1) is finished.  (A result that
\* is still running, because n1 was before autoFinishTs, is finished by an
\* evaluation at n2 >= autoFinishTs.)
C11_FinishedReevaluationIsNoOp ==
    \A o \in Observers, n2 \in FinishNows :
       (/\ fdNow[o] # -1
        /\ fdState[o] # NULL
        /\ Val(fdState[o]).status = "finished")
       => finishIfDue(fdState[o], n2) = fdState[o]

\* An observer finished a running state and evaluated the finished record
\* again at a later instant: finishTs is still the scheduled instant.
C11_Witness ==
    /\ program = "finishIfDue"
    /\ lastOp = <<"poll", "again", <<>>>>
    /\ fdInput # NULL
    /\ Val(fdInput).status = "running"
    /\ Val(fdInput).autoFinishTs = Some(1)
    /\ Val(fdState[1]).status = "finished"
    /\ Val(fdState[1]).finishTs = Some(1)
    /\ fdNow[1] = 2

\* C12: every end event of the recognition stream that occurs while the
\* status is running, voice is enabled and speech is supported requests a new
\* stream start.
C12_EndWhileRunningRestarts ==
    [][ (/\ lastOp'[1] = "onend"
         /\ status = "running" /\ voiceEnabledChecked /\ speechSupported)
        => /\ recState' = "starting"
           /\ recognitionStarting' ]_vars

\* C13: an end event of the recognition stream that arrives while the timer
\* is stopped or idle (after stop or reset) or while voice is disabled (after
\* the user switched it off) starts no new stream: the recognizer is inactive
\* afterwards and no start is pending.
C13_EndAfterDisarmStartsNothing ==
    [][ (/\ lastOp'[1] = "onend"
         /\ status # "running" \/ ~voiceEnabledChecked)
        => /\ recState' = "inactive"
           /\ ~recognitionStarting'
           /\ UNCHANGED <<webSession, webConfig, historyStore>> ]_vars

\* The end event of a stream arrived after the timer had stopped, voice still
\* being enabled.
C13_Witness ==
    /\ program = "web"
    /\ lastOp = <<"onend", "done", <<>>>>
    /\ status = "stopped"
    /\ voiceEnabledChecked
    /\ recState = "inactive"

\* C14: the stored history never holds more than HISTORY_LIMIT (10)
\* entries and is ordered most recent first: a step that changes it is a stop
\* of the running session, which places the session just stopped at index 1,
\* moves every kept entry down by one and, when the history was full, drops
\* exactly the oldest entry.
C14_HistoryBoundedNewestFirst ==
    [][ LET old == loadHistory(historyStore)
            new == loadHistory(historyStore')
        IN  /\ Len(old) <= HISTORY_LIMIT
            /\ Len(new) <= HISTORY_LIMIT
            /\ historyStore' # historyStore =>
                 /\ status = "running" /\ status' = "stopped"
                 /\ Len(new) = Min(Len(old) + 1, HISTORY_LIMIT)
                 /\ new[1].id = sessionCount'
                 /\ new[1].endedAt = ToISOString(Val(endedAtMs'))
                 /\ \A i \in 2..Len(new) : new[i] = old[i - 1] ]_vars

\* Two sessions were stopped on a full history: ten entries, the two new
\* ones first, the two oldest gone.
C14_Witness ==
    /\ program = "web"
    /\ Len(loadHistory(historyStore)) = HISTORY_LIMIT
    /\ loadHistory(historyStore)[1].id = 2
    /\ loadHistory(historyStore)[2].id = 1
    /\ loadHistory(historyStore)[3] = storedSession(1)
    /\ loadHistory(historyStore)[HISTORY_LIMIT] = storedSession(HISTORY_LIMIT - 2)

\* C15: every history entry has transcriptSnippet = null, and the entry a
\* stop appends is made of the session's id, instants, duration and stop
\* reason and of the voice configuration (voiceEnabled, voiceMode, configured
\* keyword) only: it is the same whatever utterance, if any, caused the stop.
C15_NoTranscriptInHistory ==
    [][ LET new == loadHistory(historyStore') IN
        /\ \A i \in 1..Len(new) :
             /\ new[i].transcriptSnippet = NULL
             /\ DOMAIN new[i] = {"id", "startedAt", "endedAt", "durationMs",
                                 "stopReason", "voiceEnabled", "voiceMode",
                                 "keyword", "transcriptSnippet"}
        /\ historyStore' # historyStore =>
             new[1] = [id |-> sessionCount + 1,
                       startedAt |-> ToISOString(Val(startedAtMs)),
                       endedAt |-> ToISOString(Val(endedAtMs')),
                       durationMs |-> Max(0, Val(endedAtMs') - Val(startedAtMs)),
                       stopReason |-> Val(stopReason'),
                       voiceEnabled |-> voiceEnabledChecked,
                       voiceMode |-> IF voiceEnabledChecked
                                     THEN Some(getVoiceMode) ELSE NULL,
                       keyword |-> IF voiceEnabledChecked /\ getVoiceMode = "keyword"
                                   THEN Some(getKeyword) ELSE NULL,
                       transcriptSnippet |-> NULL] ]_vars

\* The utterance "STOP" stopped the timer on the keyword "To": the entry
\* holds the keyword and no transcript.
C15_Witness ==
    /\ program = "web"
    /\ lastOp = <<"result", "done", <<"S", "T", "O", "P">>>>
    /\ loadHistory(historyStore)[1].stopReason = "voice_keyword"
    /\ loadHistory(historyStore)[1].keyword = Some(<<"T", "o">>)
    /\ loadHistory(historyStore)[1].voiceMode = Some("keyword")
    /\ loadHistory(historyStore)[1].transcriptSnippet = NULL

\* C16: a recognition error event, whatever the status, leaves status,
\* startedAt, endedAt, stopReason and the history unchanged, and a manual stop
\* given right after it to a running timer stops the session and records it.
C16_ErrorLeavesSessionAlone ==
    [][ /\ lastOp'[1] = "onerror" => UNCHANGED <<webSession, historyStore>>
        /\ (lastOp[1] = "onerror" /\ lastOp'[1] = "stop" /\ status = "running")
           => /\ status' = "stopped"
              /\ stopReason' = Some("manual")
              /\ endedAtMs' # NULL
              /\ loadHistory(historyStore')[1].id = sessionCount + 1
              /\ loadHistory(historyStore')[1].stopReason = "manual" ]_vars

\* The recognizer reported an error while the timer was running.
C16_Witness ==
    /\ program = "web"
    /\ lastOp = <<"onerror", "done", <<>>>>
    /\ status = "running"
    /\ startedAtMs # NULL /\ endedAtMs = NULL /\ stopReason = NULL

\* C17: of a manual stop and a voice-triggered stop (live utterance or
\* simulate) given for the same run only the first takes effect: a stop of
\* either kind given while the status is not running changes no session field
\* and appends nothing, so endedAt and stopReason stay those of the first.  The
\* history changes only on the step that takes a run from running to stopped
\* and only a start command begins a run, so a run contributes one entry.
C17_FirstStopWins ==
    [][ /\ (lastOp'[1] \in {"stop", "simulate", "result"}
              /\ program = "web" /\ status # "running")
           => UNCHANGED <<webSession, historyStore, sessionCount>>
        /\ (historyStore' # historyStore \/ sessionCount' # sessionCount)
           => /\ status = "running" /\ status' = "stopped"
              /\ sessionCount' = sessionCount + 1
              /\ lastOp'[1] \in {"stop", "simulate", "result"}
        /\ (program = "web" /\ status # "running" /\ status' = "running")
           => lastOp'[1] = "start" ]_vars

\* An utterance arrived, with voice enabled in any mode, after a manual stop
\* of the same run: the session is still the manually stopped one, recorded
\* once.
C17_Witness ==
    /\ program = "web"
    /\ lastOp[1] = "result" /\ lastOp[2] = "ignored"
    /\ voiceEnabledChecked /\ getVoiceMode = "any"
    /\ status = "stopped"
    /\ stopReason = Some("manual")
    /\ sessionCount = 1
    /\ Len(loadHistory(historyStore)) = 1
    /\ loadHistory(historyStore)[1].stopReason = "manual"

\* C18: in every reachable state startedAt is null exactly when the status is
\* idle (non-null exactly when it is running, stopped or finished): the web
\* timer, the mockup, and the record the bot persists.
C18_StartedAtIffNotIdle ==
    /\ status \in {"idle", "running", "stopped"}
    /\ (startedAtMs = NULL) <=> (status = "idle")
    /\ mockStatus \in {"idle", "running", "stopped", "finished"}
    /\ (mockStartedAtMs = NULL) <=> (mockStatus = "idle")
    /\ LET r == loadTimerState(timerStateFile) IN
       /\ r.status \in {"idle", "running", "stopped"}
       /\ (r.startedAt = NULL) <=> (r.status = "idle")

\* The bot's record after a timer-stop: stopped, with the start instant kept.
C18_Witness ==
    /\ program = "bot"
    /\ loadTimerState(timerStateFile).status = "stopped"
    /\ loadTimerState(timerStateFile).startedAt # NULL
    /\ lastOp[1] \in {"timer-stop", "timer_stop"}

\* C19 as stated, for the states that hold the fields: endedAt is non-null
\* exactly when the status is stopped or finished (web timer, bot record), and
\* so is the bot record's durationMs.  (The mockup records no end instant.)
C19_EndAndDurationIffEnded ==
    /\ (endedAtMs # NULL) <=> (status \in {"stopped", "finished"})
    /\ LET r == loadTimerState(timerStateFile) IN
       /\ (r.endedAt # NULL) <=> (r.status \in {"stopped", "finished"})
       /\ (r.durationMs # NULL) <=> (r.status \in {"stopped", "finished"})

\* C19: endedAt is non-null exactly when the status is stopped, in the web
\* timer and in the bot's record.  The bot's durationMs is never null: it is 0
\* while idle or running and the clamped difference once stopped.  The web
\* timer keeps the duration in the history entry only, and every entry has
\* its end instant.  The mockup has no endedAt; its scheduled end endsAtMs is
\* non-null exactly when the status is not idle, and its durationMs, the
\* length of the countdown, is always a positive number.
C19_EndedAtIffStopped ==
    /\ (endedAtMs # NULL) <=> (status = "stopped")
    /\ \A i \in 1..Len(loadHistory(historyStore)) :
          loadHistory(historyStore)[i].endedAt # NULL
    /\ LET r == loadTimerState(timerStateFile) IN
       /\ (r.endedAt # NULL) <=> (r.status = "stopped")
       /\ r.durationMs # NULL
       /\ r.status # "stopped" => r.durationMs = Some(0)
    /\ (endsAtMs # NULL) <=> (mockStatus # "idle")
    /\ durationMs > 0

\* The bot's record of a running timer: no end instant, durationMs 0.
C19_Witness ==
    /\ program = "bot"
    /\ lastOp[1] \in {"timer-start", "timer_start"} /\ lastOp[2] = "done"
    /\ loadTimerState(timerStateFile).status = "running"
    /\ loadTimerState(timerStateFile).endedAt = NULL
    /\ loadTimerState(timerStateFile).durationMs = Some(0)
    /\ loadTimerState(timerStateFile).startedAt = ToISOString(1)

\* C20: in the mockup a running countdown's scheduled end is
\* startedAtMs + durationMs, as set at start, and no step that leaves the
\* status running changes it (nor the start instant): frames, frames that
\* come late, changes of the duration field, start commands.
C20_ScheduledEndFixedWhileRunning ==
    [][ /\ mockStatus' = "running"
           => endsAtMs' = Some(Val(mockStartedAtMs') + durationMs')
        /\ (mockStatus = "running" /\ mockStatus' = "running")
           => /\ endsAtMs' = endsAtMs
              /\ mockStartedAtMs' = mockStartedAtMs
              /\ durationMs' = durationMs ]_vars

\* The duration field was changed during a run: the scheduled end is still
\* the one set at start, for a duration that is no longer the field's.
C20_Witness ==
    /\ program = "mockup"
    /\ lastOp = <<"duration", "done", <<>>>>
    /\ mockStatus = "running"
    /\ readDurationMs(durationMinValue) # durationMs
    /\ endsAtMs = Some(Val(mockStartedAtMs) + durationMs)

\* C21: the web timer and the bot hold the same timer state: after any
\* sequence of start, stop and reset commands given to either of them, the
\* status and startedAt the web timer shows are the status and startedAt of
\* the record the bot's timer-status reads.
C21_WebAndBotShareState ==
    program = "deployment"
    => LET state == getTimerState(timerStateFile) IN
       /\ status = state.status
       /\ state.startedAt = (IF startedAtMs = NULL THEN NULL
                             ELSE ToISOString(Val(startedAtMs)))

\* The record's invariant of C18 and C19: startedAt is set exactly when the
\* status is running or stopped, endedAt exactly when it is stopped.
RecordWellFormed(r) ==
    /\ r.startedAt # NULL <=> r.status \in {"running", "stopped"}
    /\ r.endedAt # NULL <=> r.status = "stopped"

\* C22: when two actors give start, stop and reset commands against the same
\* record, each command a guard read, a re-read with merge and a write, with
\* the other actor's steps allowed in between, every record written is well
\* formed, and the write of a start never replaces the startedAt of a record
\* that is running.
C22_RacesNeverCorrupt ==
    [][ program = "race"
        => /\ RecordWellFormed(getTimerState(timerStateFile'))
           /\ (/\ lastOp' = <<"race-save", "start", <<>>>>
               /\ getTimerState(timerStateFile).status = "running")
              => getTimerState(timerStateFile').startedAt
                   = getTimerState(timerStateFile).startedAt ]_vars

\* C23: with commands run one at a time (none is waiting for its reply when
\* the next is given), no periodic loop is left once a stop or reset command
\* has completed: the web timer has no animation frame scheduled and the
\* bot's refresh interval is cleared.
C23_LoopsTornDownOnStopAndReset ==
    [][ /\ (program = "web" /\ lastOp'[1] \in {"stop", "reset"})
           => rafId' = 0
        /\ (/\ \/ lastOp'[1] \in {"timer-reset", "timer_reset"}
               \/ (lastOp'[1] \in {"timer-stop", "timer_stop"}
                     /\ lastOp'[2] = "ignored")
            /\ startReplies + stopReplies = 0)
           => updateInterval' = NULL
        /\ (lastOp'[1] = "stop-replied" /\ startReplies + stopReplies = 1)
           => updateInterval' = NULL ]_vars

\* C24: observation never mutates.  The interval's callback, timer-status,
\* the timer_status button and the timer_refresh button, and the panel update
\* they start, leave the timer-state file as it is in every state and put no
\* start or stop under way (no handler is added to those waiting to go on
\* after their reply, the interval is neither created nor cleared), also
\* when the record changed between the observer's read and its render.
C24_ObservationNeverMutates ==
    [][ lastOp'[1] \in {"timer-status", "timer_status", "timer_refresh",
                        "interval", "panel-render"}
        => UNCHANGED <<timerStateFile, updateInterval, startReplies,
                       stopReplies>> ]_vars

\* The interval's callback read a running record, a stop was accepted while
\* the panel update waited, and the update then rendered the stopped record.
C24_Witness ==
    /\ program = "bot"
    /\ lastOp = <<"panel-render", "stopped", <<"running">>>>
    /\ getTimerState(timerStateFile).status = "stopped"
    /\ getTimerState(timerStateFile).endedAt # NULL

\* The users in the connected-agents set.
Members(agents) == { agents[i].userId : i \in 1..Len(agents) }

\* agent-connect or agent-disconnect of one user
AgentOps == {"connect", "disconnect"}
applyAgentOp(op, agents, userId, t) ==
    IF op = "connect" THEN agentConnect(agents, userId, t)
    ELSE agentDisconnect(agents, userId)

\* C25: agent registration is idempotent and commutative per user.  An
\* agent-connect by a user who is connected leaves the Map, that user's entry
\* and its connectedAt included, as it is; an agent-disconnect by a user who
\* is not connected leaves the Map as it is; and from every state, connect or
\* disconnect operations of two different users give the same set of
\* connected users in either order.
C25_RegistrationIdempotentCommutative ==
    [][ /\ (lastOp'[1] = "agent-connect"
              /\ hasAgent(connectedAgents, lastOp'[3][1]))
           => connectedAgents' = connectedAgents
        /\ (lastOp'[1] = "agent-disconnect"
              /\ ~hasAgent(connectedAgents, lastOp'[3][1]))
           => connectedAgents' = connectedAgents
        /\ lastOp'[1] \in {"agent-connect", "agent-disconnect"}
           => \A u, v \in UserIds, opu, opv \in AgentOps, tu, tv \in Times :
                u # v
                => Members(applyAgentOp(opv, applyAgentOp(opu, connectedAgents, u, tu), v, tv))
                   = Members(applyAgentOp(opu, applyAgentOp(opv, connectedAgents, v, tv), u, tu))
      ]_vars

\* Both users are connected, u1 since clock reading 0, and u1 has just given
\* agent-connect again.
C25_Witness ==
    /\ program = "agents"
    /\ lastOp = <<"agent-connect", "ignored", <<"u1">>>>
    /\ Members(connectedAgents) = UserIds
    /\ \E i \in 1..Len(connectedAgents) :
         connectedAgents[i].userId = "u1" /\ connectedAgents[i].connectedAt = 0

\* C26: a session in the history is never changed.  Whatever the web timer
\* does (start, stop, reset, an utterance, a recognizer event, a change of
\* the voice settings, at any clock reading), every entry the history held
\* before the step is in the history after it with all its fields as they
\* were, at the same or a later position, unless it was the oldest of 10
\* entries and a new session was put in front.
C26_HistoryEntriesImmutable ==
    [][ program = "web"
        => LET old == loadHistory(historyStore)
               new == loadHistory(historyStore')
           IN  \A i \in 1..Len(old) :
                 \/ \E j \in i..Len(new) : new[j] = old[i]
                 \/ /\ i = HISTORY_LIMIT
                    /\ Len(new) = HISTORY_LIMIT
                    /\ new[1] # old[1] ]_vars

\* The page loaded with 10 stored sessions; a session was stopped and the
\* timer reset: the stored sessions moved back by one place unchanged and
\* the oldest one is gone.
C26_Witness ==
    /\ program = "web"
    /\ lastOp[1] = "reset"
    /\ LET sessions == loadHistory(historyStore) IN
       /\ Len(sessions) = HISTORY_LIMIT
       /\ sessions[1].id = 1
       /\ \A k \in 1..(HISTORY_LIMIT - 1) : sessions[k + 1] = storedSession(k)

\* What finishIfDue may return for a state that is due: the state with
\* status finished and finishTs = autoFinishTs, all other fields as given.
FinishedOf(state) ==
    Some([status |-> "finished", startTs |-> Val(state).startTs,
          autoFinishTs |-> Val(state).autoFinishTs,
          finishTs |-> Val(state).autoFinishTs])

\* C27 as stated, with "autoFinishTs is set" read as "is a number": for every
\* state an observer holds and every instant, finishIfDue returns the
\* finished state exactly when the status is running, autoFinishTs is a
\* number and now >= autoFinishTs, and otherwise the state it was given.
C27_FinishExactlyWhenDueForEveryNumber ==
    \A o \in Observers, now \in FinishNows :
       LET state == fdState[o]
           due == /\ state # NULL
                  /\ Val(state).status = "running"
                  /\ Val(state).autoFinishTs \notin {NULL, UNDEFINED}
                  /\ now >= Val(Val(state).autoFinishTs)
       IN  finishIfDue(state, now) = (IF due THEN FinishedOf(state) ELSE state)

\* C27: the same with "set" meaning a number other than 0 (finishIfDue takes
\* 0, like null and undefined, for "no finish scheduled").  The boundary
\* now = autoFinishTs finishes; finishing changes status and finishTs only.
C27_FinishExactlyWhenDue ==
    \A o \in Observers, now \in FinishNows :
       LET state == fdState[o]
           due == /\ state # NULL
                  /\ Val(state).status = "running"
                  /\ Val(state).autoFinishTs \notin {NULL, UNDEFINED, Some(0)}
                  /\ now >= Val(Val(state).autoFinishTs)
       IN  finishIfDue(state, now) = (IF due THEN FinishedOf(state) ELSE state)

\* Of two observers of a state due at 1, one evaluated it at 0 and still
\* holds it running, the other evaluated it at 1, the boundary, and holds it
\* finished with finishTs = 1.
C27_Witness ==
    /\ program = "finishIfDue"
    /\ fdInput # NULL
    /\ Val(fdInput).status = "running"
    /\ Val(fdInput).autoFinishTs = Some(1)
    /\ fdNow[1] = 0 /\ fdState[1] = fdInput
    /\ fdNow[2] = 1 /\ fdState[2] = FinishedOf(fdInput)

\* C28: arming is guarded.  A step in which a stream start is requested (the
\* recognizer becomes starting) is a run of handleStart, of the end handler
\* or of the voice toggle, and after it speech is supported, voice is
\* enabled, the status is running and recognitionStarting is set; the end
\* handler and the voice toggle, which call startRecognition on the state
\* they find, request a start only when recognitionStarting was false, and
\* when one of the four conditions fails they leave the recognition state as
\* it is (the end handler's recognizer has ended).  A stream that is starting
\* always has recognitionStarting set, so no second start is requested while
\* one is pending.
C28_ArmingGuarded ==
    [][ program = "web"
        => /\ (recState' = "starting" /\ recState # "starting")
              => /\ lastOp'[1] \in {"start", "onend", "voiceEnabled"}
                 /\ speechSupported /\ voiceEnabledChecked'
                 /\ status' = "running"
                 /\ recognitionStarting'
                 /\ lastOp'[1] # "start" => ~recognitionStarting
           /\ (/\ lastOp'[1] = "onend"
               /\ ~(/\ speechSupported /\ voiceEnabledChecked
                    /\ status = "running" /\ ~recognitionStarting))
              => /\ recState' = "inactive"
                 /\ UNCHANGED <<recognition, recognitionStarting>>
           /\ (/\ lastOp'[1] = "voiceEnabled" /\ voiceEnabledChecked'
               /\ ~(/\ speechSupported
                    /\ status = "running" /\ ~recognitionStarting))
              => UNCHANGED webVoice
           /\ recState' = "starting" => recognitionStarting' ]_vars

\* Voice was enabled while the timer was running: a start was requested.
C28_Witness ==
    /\ program = "web"
    /\ lastOp[1] = "voiceEnabled"
    /\ voiceEnabledChecked /\ speechSupported
    /\ status = "running"
    /\ recState = "starting"
    /\ recognitionStarting

\* The stream was never created, never armed or has already ended.
streamInactive == recognition = NULL \/ recState = "inactive"

\* C29: cancellation is safe in every state.  Where the stream was never
\* created, never armed or has already ended, a handler that calls
\* stopRecognition completes: the voice toggle, which calls nothing else,
\* leaves every session field, the animation frame and the history as they
\* are, reset and stop end in the state they end in otherwise, and in all
\* three the recognizer and its handlers are as before with
\* recognitionStarting false.  stopControlPanelUpdates leaves updateInterval
\* null whether or not an interval was active.
C29_CancellationSafe ==
    [][ /\ (/\ program = "web" /\ streamInactive
            /\ \/ lastOp'[1] = "voiceEnabled" /\ ~voiceEnabledChecked'
               \/ lastOp'[1] = "reset"
               \/ lastOp'[1] = "stop" /\ lastOp'[2] = "done")
           => /\ UNCHANGED <<recognition, recState>>
              /\ ~recognitionStarting'
              /\ lastOp'[1] = "voiceEnabled"
                 => UNCHANGED <<webSession, rafId, historyStore, sessionCount>>
              /\ lastOp'[1] = "reset" => status' = "idle" /\ startedAtMs' = NULL
              /\ lastOp'[1] = "stop" => status' = "stopped" /\ endedAtMs' # NULL
        /\ lastOp'[1] = "stop-replied" => updateInterval' = NULL ]_vars

\* Voice was switched off during a run whose stream had already ended (it
\* failed before it reported started): the run goes on, the recognizer and
\* its end handler are as they were.
C29_Witness ==
    /\ program = "web"
    /\ lastOp[1] = "voiceEnabled"
    /\ ~voiceEnabledChecked
    /\ status = "running" /\ startedAtMs # NULL
    /\ recognition = Some("restart")
    /\ recState = "inactive"
    /\ ~recognitionStarting

\* C30: a failed write does not lose the command.  Whether or not the write
\* of timer-state.json succeeds, after an accepted timer-start the bot's
\* next read of the timer state (getTimerState) gives status running, after
\* an accepted timer-stop stopped with endedAt set, and after timer-reset
\* idle.
C30_FailedWriteKeepsCommand ==
    [][ LET state == getTimerState(timerStateFile') IN
        /\ (lastOp'[1] \in {"timer-start", "timer_start"} /\ lastOp'[2] = "done")
           => state.status = "running" /\ state.startedAt # NULL
        /\ (lastOp'[1] \in {"timer-stop", "timer_stop"} /\ lastOp'[2] = "done")
           => state.status = "stopped" /\ state.endedAt # NULL
        /\ lastOp'[1] \in {"timer-reset", "timer_reset"}
           => state.status = "idle" /\ state.startedAt = NULL ]_vars

\* The entries of one user in the connected-agents Map (at most one).
EntriesOf(agents, userId) ==
    { agents[i] : i \in { k \in 1..Len(agents) : agents[k].userId = userId } }

\* C31: when the member-removed signal arrives for a user, that user is not
\* in the connected-agents set afterwards and every other user's entry is as
\* it was; for a user who is not connected the signal changes nothing.
C31_MemberRemovedUnregisters ==
    [][ lastOp'[1] = "member-removed"
        => LET userId == lastOp'[3][1] IN
           /\ userId \notin Members(connectedAgents')
           /\ \A other \in UserIds \ {userId} :
                EntriesOf(connectedAgents', other) = EntriesOf(connectedAgents, other)
           /\ userId \notin Members(connectedAgents)
              => connectedAgents' = connectedAgents ]_vars

\* Both users were connected when the signal arrived for u1: u2 is still
\* connected, since clock reading 1.
C31_Witness ==
    /\ program = "agents"
    /\ lastOp = <<"member-removed", "done", <<"u1">>>>
    /\ Members(connectedAgents) = {"u2"}
    /\ connectedAgents[1].connectedAt = 1

\* C32: a start given in the stopped state, with no reset in between, begins
\* a new run: the status becomes running, startedAt is a clock reading,
\* endedAt and stopReason of the previous run are cleared and the history,
\* the previous run's entry in it, is as it was.  Web timer and the bot's
\* timer-start.
C32_StartFromStoppedBeginsNewRun ==
    [][ /\ (program = "web" /\ lastOp'[1] = "start" /\ status = "stopped")
           => /\ status' = "running"
              /\ startedAtMs' \in { Some(t) : t \in Times }
              /\ endedAtMs' = NULL
              /\ stopReason' = NULL
              /\ historyStore' = historyStore
              /\ loadHistory(historyStore')[1].id = sessionCount'
        /\ (/\ lastOp'[1] \in {"timer-start", "timer_start"}
            /\ getTimerState(timerStateFile).status = "stopped")
           => LET state == getTimerState(timerStateFile') IN
              /\ state.status = "running"
              /\ state.startedAt \in { ToISOString(t) : t \in Times }
              /\ state.endedAt = NULL
              /\ state.stopReason = NULL ]_vars

\* A run started at clock reading 0 was stopped and a new run started at
\* clock reading 1: the first run's entry is in the history.
C32_Witness ==
    /\ program = "web"
    /\ lastOp = <<"start", "done", <<>>>>
    /\ status = "running"
    /\ startedAtMs = Some(1)
    /\ endedAtMs = NULL /\ stopReason = NULL
    /\ sessionCount = 1
    /\ loadHistory(historyStore)[1].startedAt = ToISOString(0)


\* ---------------------------------------------------------------------- C33
\* The calls the last handler made, by name.
CallsOf(name) == {i \in 1..Len(effectLog) : effectLog[i].call = name}

stopRan == CallsOf("pushSessionToHistory") # {}
startRan == CallsOf("startRecognition") # {}

\* C33 as stated: in the web timer's stop command the status has already left
\* running when the speech trigger is disarmed and when the history entry is
\* appended, and in the start command the status is already running when the
\* trigger is armed.
C33_TransitionPrecedesEveryEffect ==
    /\ stopRan =>
          /\ \A i \in CallsOf("stopRecognition") : effectLog[i].status # "running"
          /\ \A i \in CallsOf("pushSessionToHistory") :
                effectLog[i].status # "running"
    /\ startRan =>
          \A i \in CallsOf("startRecognition") : effectLog[i].status = "running"

\* C33 amended: the stop command disarms the speech trigger while the status is
\* still running and changes the status right after it, so that the status has
\* left running when the history entry is appended; in the start command the
\* status is already running when the trigger is armed; the handler runs to
\* completion, so the state after it is the one its transition set.
C33_TransitionPrecedesAppendAndArm ==
    /\ stopRan =>
          /\ \A i \in CallsOf("stopRecognition") :
                /\ effectLog[i].status = "running"
                /\ \A j \in CallsOf("setStatus") : i < j
          /\ \A i \in CallsOf("pushSessionToHistory") :
                /\ effectLog[i].status = "stopped"
                /\ \A j \in CallsOf("setStatus") : j < i
          /\ status = "stopped"
          /\ recState \notin {"starting", "listening"}
    /\ startRan =>
          /\ \A i \in CallsOf("startRecognition") :
                effectLog[i].status = "running"
          /\ status = "running"

C33_Witness ==
    /\ stopRan
    /\ lastOp[1] = "result"
    /\ effectLog[1] = [call |-> "stopRecognition", status |-> "running"]
    /\ Len(loadHistory(historyStore)) = 1

\* ---------------------------------------------------------------------- C34
\* C34: the start-debounce flag never sticks.  recognitionStarting is true only
\* while a start request is outstanding, that is while start() was called and
\* the stream has neither reported started nor ended; after a stream that
\* failed before reporting started has ended, the flag is false.
C34_DebounceFlagNeverSticks ==
    recognitionStarting => /\ recognition # NULL
                           /\ recState = "starting"

\* ---------------------------------------------------------------------- C35
\* A history entry whose stop reason agrees with its latched voice
\* configuration.
reasonMatchesConfig(e) ==
    /\ e.stopReason = "voice_any"
         => /\ e.voiceEnabled = TRUE
            /\ e.voiceMode = Some("any")
    /\ e.stopReason = "voice_keyword"
         => /\ e.voiceEnabled = TRUE
            /\ e.voiceMode = Some("keyword")
            /\ e.keyword # NULL
            /\ Val(e.keyword) # <<>>

\* C35 as stated: every history entry's stop reason is consistent with its
\* latched voice configuration (voice_any: voiceEnabled and mode any;
\* voice_keyword: voiceEnabled, mode keyword and a non-empty keyword).
C35_EveryEntryMatchesConfig ==
    \A i \in 1..Len(loadHistory(historyStore)) :
        reasonMatchesConfig(loadHistory(historyStore)[i])

\* C35 amended: the entry a recognizer result writes is consistent with its
\* latched voice configuration.  The entry the simulate button writes takes
\* its reason from the selected mode alone: where voice is enabled its
\* latched mode agrees with the reason, where voice is disabled it has
\* voiceEnabled = false and no mode and no keyword, and a voice_keyword
\* entry of the button may have an empty keyword.
C35_RecognizerEntriesMatchConfig ==
    [][ LET new == loadHistory(historyStore') IN
        /\ (lastOp'[1] = "result" /\ lastOp'[2] = "done")
              => /\ new[1].id = sessionCount + 1
                 /\ new[1].stopReason \in {"voice_any", "voice_keyword"}
                 /\ reasonMatchesConfig(new[1])
        /\ (lastOp'[1] = "simulate" /\ lastOp'[2] = "done")
              => /\ new[1].id = sessionCount + 1
                 /\ new[1].stopReason
                      = (IF getVoiceMode = "keyword" THEN "voice_keyword"
                         ELSE "voice_any")
                 /\ new[1].voiceEnabled = voiceEnabledChecked
                 /\ IF voiceEnabledChecked
                    THEN new[1].voiceMode = Some(getVoiceMode)
                    ELSE new[1].voiceMode = NULL /\ new[1].keyword = NULL ]_vars

\* A spoken keyword stopped the timer: the entry has reason voice_keyword, voice
\* enabled, mode keyword and the keyword that was set.
C35_Witness ==
    /\ lastOp[1] = "result"
    /\ lastOp[2] = "done"
    /\ LET e == loadHistory(historyStore)[1] IN
       /\ e.stopReason = "voice_keyword"
       /\ e.voiceEnabled = TRUE
       /\ e.voiceMode = Some("keyword")
       /\ Val(e.keyword) # <<>>

\* ---------------------------------------------------------------------- C36
StartNames == {"timer-start", "timer_start"}
StopNames == {"timer-stop", "timer_stop"}

\* C36: in one bot process the guard check and the state write of timer-start
\* and timer-stop are one step.  A timer-stop interaction performs the
\* transition exactly when it finds the timer running; it then writes
\* status stopped and endedAt before any other handler runs, so that a
\* second timer-stop interaction, also one that arrives while the first
\* still waits for its reply, is rejected, replies that the timer is not
\* running and writes nothing.  Likewise a timer-start interaction sets
\* startedAt exactly when it finds the timer not running, and leaves the
\* record running for the next one.
C36_GuardAndWriteAtomic ==
    [][ LET before == getTimerState(timerStateFile)
            after == getTimerState(timerStateFile')
        IN  /\ lastOp'[1] \in StopNames
                 => /\ lastOp'[2] = "done" <=> before.status = "running"
                    /\ lastOp'[2] = "done"
                         => /\ after.status = "stopped"
                            /\ after.endedAt # NULL
                            /\ stopReplies' = stopReplies + 1
                            /\ botStopRejected(after)
                    /\ lastOp'[2] = "ignored"
                         => /\ timerStateFile' = timerStateFile
                            /\ stopReplies' = stopReplies
            /\ lastOp'[1] \in StartNames
                 => /\ lastOp'[2] = "done" <=> before.status # "running"
                    /\ lastOp'[2] = "done"
                         => /\ after.status = "running"
                            /\ after.startedAt # NULL
                            /\ startReplies' = startReplies + 1
                            /\ botStartRejected(after)
                    /\ lastOp'[2] = "ignored"
                         => /\ timerStateFile' = timerStateFile
                            /\ startReplies' = startReplies ]_vars

\* Two timer-stop interactions against a running timer: the first performed
\* the transition and still waits for its reply, the second was rejected.
C36_Witness ==
    /\ lastOp[1] \in StopNames
    /\ lastOp[2] = "ignored"
    /\ stopReplies = 1
    /\ startReplies = 0
    /\ getTimerState(timerStateFile).status = "stopped"
    /\ getTimerState(timerStateFile).endedAt # NULL

\* ---------------------------------------------------------------------- C37
\* C37: for every interleaving of timer-start and timer-stop handlers in one
\* bot process, no reset issued, once all handlers in flight have completed
\* and the persisted status is stopped, the periodic refresh of the control
\* panel is inactive (updateInterval = null): a start handler that resumes
\* after a later stop has finished does not leave the interval running.
C37_RefreshInactiveWhenStopped ==
    (/\ startReplies = 0
     /\ stopReplies = 0
     /\ panelUpdates = <<>>
     /\ getTimerState(timerStateFile).status = "stopped")
    => updateInterval = NULL

\* ---------------------------------------------------------------------- C38
\* C38: in the countdown mockup finished is entered only from running.  The
\* step that makes the status finished is a frame that found the session
\* running; a session that is idle or stopped stays as it is when a frame
\* fires, also a frame that was scheduled before the stop or the reset and
\* fires after it.
C38_FinishedOnlyFromRunning ==
    [][ /\ (mockStatus' = "finished" /\ mockStatus # "finished")
             => /\ mockStatus = "running"
                /\ lastOp'[1] = "finish"
        /\ (lastOp'[1] \in {"frame", "finish"} /\ mockStatus # "running")
             => UNCHANGED mockVars ]_vars

\* A frame fired after the session was stopped and left it stopped, with its
\* start and end times still set.
C38_Witness ==
    /\ program = "mockup"
    /\ lastOp = <<"frame", "ignored", <<>>>>
    /\ mockStatus = "stopped"
    /\ mockStartedAtMs # NULL
    /\ endsAtMs # NULL
    /\ mockRafId = 0

\* ---------------------------------------------------------------------- C39
\* C39: in the countdown mockup, provided animation frames keep occurring
\* and the clock keeps advancing, every running session eventually leaves
\* the running state: it is finished by a frame at or after endsAtMs, or
\* stopped or reset by the user.
C39_RunningEventuallyLeft ==
    (mockStatus = "running") ~> (mockStatus # "running")

\* A session of 2 minutes, started after the clock's first reading, was
\* finished by a frame once the clock had reached endsAtMs.
C39_Witness ==
    /\ program = "mockup"
    /\ lastOp[1] = "finish"
    /\ mockStatus = "finished"
    /\ mockStartedAtMs # NULL
    /\ Val(mockStartedAtMs) > 0
    /\ mockNow >= Val(endsAtMs)
    /\ Val(endsAtMs) - Val(mockStartedAtMs) = 2 * MS_PER_MINUTE
====
